---- MODULE Spec2Model ----
(***************************************************************************)
(* The GitHub feed / rebase digest pipeline of AdHub Bot.                  *)
(*                                                                         *)
(*   cogs/github_feed.py  GitHubFeed: event_buffer, live listener,         *)
(*                        backfill, drain_buffer / peek_buffer             *)
(*   cogs/reminders.py    Reminders: the one-minute loop rebase_reminder,  *)
(*                        _send_rebase_digest, /rebase-now,                *)
(*                        /activity-preview                                *)
(*   cogs/chat.py         Chat._get_github_feed_context (a peek)           *)
(*   cogs/test_digest.py  TestDigest.test_digest (injects MOCK_EVENTS)     *)
(*                                                                         *)
(* One asyncio event loop runs every handler: a handler runs without       *)
(* interruption up to its next await, so an action of this module is the   *)
(* code of a handler between two awaits.                                   *)
(*                                                                         *)
(* Time is the wall clock of Asia/Manila (UTC+8, no daylight saving) in    *)
(* whole minutes since 00:00 of day 0.                                     *)
(***************************************************************************)
EXTENDS Integers, Sequences, FiniteSets, TLC

(***************************************************************************)
(* Bounds of the model.                                                    *)
(***************************************************************************)
\* messages ever posted to the chat platform
MaxMsgs == 2
\* process restarts (a restart builds new cogs: the buffer is in memory only)
MaxRestarts == 1
\* on_ready events per process lifetime (the gateway re-sends it on reconnect)
MaxReady == 2
\* days the clock runs over
MaxDays == 1
\* /test-digest invocations per process lifetime
MaxTestDigest == 1
\* messages of the integration posted where the parser and the digest are
\* looked at
MaxSamples == 1
\* bursts of people's messages in the feed channel
MaxBursts == 1
\* messages the bot itself posts in the feed channel
MaxOwn == 2

(***************************************************************************)
(* Program constants.                                                      *)
(***************************************************************************)
\* github_feed.py:66  channel.history(after=cutoff, limit=200, ...)
HistoryLimit == 200

\* reminders.py:29-32
REMINDER_TIMES == << [hour |-> 12, minute |-> 0], [hour |-> 18, minute |-> 0] >>

\* github_feed.py:41
rebase_hours == <<12, 18>>

(***************************************************************************)
(* Wall clock.                                                             *)
(***************************************************************************)
DayLen == 24 * 60

Hour(t) == (t % DayLen) \div 60

Minute(t) == t % 60

\* The instants of a day the pipeline is observed at: one in each stretch
\* between two slots, and the minute of each slot.
DayInstants == {11 * 60, 12 * 60, 13 * 60, 18 * 60}

Instants == {d * DayLen + m : d \in 0 .. (MaxDays - 1), m \in DayInstants}

StartTime == 11 * 60

Max(S) == CHOOSE x \in S : \A y \in S : y <= x

Min(S) == CHOOSE x \in S : \A y \in S : x <= y

\* datetime.replace(hour=h, minute=0, second=0, microsecond=0)
ReplaceHour(t, h) == (t - (t % DayLen)) + h * 60

\* sorted(rebase_hours, reverse=True): the hours from the latest to the earliest
RECURSIVE SortedDesc(_)
SortedDesc(S) ==
    IF S = {} THEN << >>
    ELSE LET m == Max(S) IN <<m>> \o SortedDesc(S \ {m})

RECURSIVE FirstCandidate(_, _)
FirstCandidate(t, hs) ==
    IF hs = << >> THEN ReplaceHour(t - DayLen, 18)
    ELSE IF ReplaceHour(t, Head(hs)) <= t THEN ReplaceHour(t, Head(hs))
    ELSE FirstCandidate(t, Tail(hs))

\* _last_rebase_time going over the hours from the earliest to the latest
_last_rebase_time_ascending(t) ==
    FirstCandidate(t, << 12, 18 >>)

_last_rebase_time(t) ==
    FirstCandidate(t, SortedDesc({rebase_hours[i] : i \in DOMAIN rebase_hours}))

(***************************************************************************)
(* Text.  A str is a string, its characters are the strings of length 1.   *)
(* A string of this module cannot hold the grave accent or a character    *)
(* outside ASCII: the texts of the model have ^ where the program's have   *)
(* the grave accent and ~ where they have a character outside ASCII (the   *)
(* em dash, a bullet, an emoji), and no ^ or ~ of their own.  None is      *)
(* Python's None where a str is expected: no text of the model is this     *)
(* string.                                                                 *)
(***************************************************************************)
None == "<None>"

Ch(s, i) == SubSeq(s, i, i)

CharsOf(s) == {Ch(s, i) : i \in 1 .. Len(s)}

digits == "0123456789"

ascii_lowercase == "abcdefghijklmnopqrstuvwxyz"

ascii_uppercase == "ABCDEFGHIJKLMNOPQRSTUVWXYZ"

\* the characters of the model in the order of their code points
printable == " !\"#$%&'()*+,-./0123456789:;<=>?@ABCDEFGHIJKLMNOPQRSTUVWXYZ[\\]_^abcdefghijklmnopqrstuvwxyz{|}~"

Digit == CharsOf(digits)

Upper == CharsOf(ascii_uppercase)

Word == CharsOf(ascii_lowercase) \cup Upper \cup Digit \cup {"_"}

Whitespace == {" ", "\t", "\n", "\r", "\f"}

IndexIn(s, c) == CHOOSE i \in 1 .. Len(s) : Ch(s, i) = c

ord(c) == IF c \in CharsOf(printable) THEN IndexIn(printable, c) ELSE 0

LowerCh(c) == IF c \in Upper THEN Ch(ascii_lowercase, IndexIn(ascii_uppercase, c)) ELSE c

\* str.lower()
RECURSIVE lower(_)
lower(s) ==
    IF Len(s) = 0 THEN ""
    ELSE IF Len(s) = 1 THEN LowerCh(s)
    ELSE lower(SubSeq(s, 1, Len(s) \div 2)) \o lower(SubSeq(s, Len(s) \div 2 + 1, Len(s)))

\* str.strip()
strip(s) ==
    LET inked == {i \in 1 .. Len(s) : Ch(s, i) \notin Whitespace}
    IN  IF inked = {} THEN "" ELSE SubSeq(s, Min(inked), Max(inked))

\* sub in s
contains(s, sub) ==
    \E i \in 1 .. (Len(s) - Len(sub) + 1) : SubSeq(s, i, i + Len(sub) - 1) = sub

\* s.split(sep), sep one character
split(s, sep) ==
    LET cuts   == {i \in 1 .. Len(s) : Ch(s, i) = sep}
        cut(k) == IF k = 0 THEN 0
                  ELSE IF k > Cardinality(cuts) THEN Len(s) + 1
                  ELSE CHOOSE i \in cuts : Cardinality({j \in cuts : j < i}) = k - 1
    IN  [k \in 1 .. (Cardinality(cuts) + 1) |-> SubSeq(s, cut(k - 1) + 1, cut(k) - 1)]

\* sep.join(parts)
RECURSIVE join(_, _)
join(sep, parts) ==
    IF parts = << >> THEN ""
    ELSE IF Len(parts) = 1 THEN parts[1]
    ELSE parts[1] \o sep \o join(sep, Tail(parts))

\* int(s), s a run of decimal digits
RECURSIVE int(_)
int(s) ==
    IF s = "" THEN 0
    ELSE 10 * int(SubSeq(s, 1, Len(s) - 1)) + (IndexIn(digits, Ch(s, Len(s))) - 1)

\* str(v) of an f-string
str(v) == IF v = None THEN "None" ELSE v

(***************************************************************************)
(* re.match(pattern, string, flags).  A pattern is the sequence of its     *)
(* items; the match is found as the backtracking matcher finds it: a       *)
(* greedy item takes the longest run the rest of the pattern can follow, a *)
(* lazy one the shortest, an optional group is tried before it is skipped. *)
(***************************************************************************)
Lit(s) == [k |-> "lit", s |-> s]

\* class+ / class* (min 1 / 0), lazy with a trailing ?, capturing as group cap
Rep(cls, min, lazy, cap) == [k |-> "rep", cls |-> cls, min |-> min, lazy |-> lazy, cap |-> cap]

One(cls) == [k |-> "one", cls |-> cls]

\* (?:body)?
Opt(body) == [k |-> "opt", body |-> body]

\* (a|b|c) as group cap
Alt(alts, cap) == [k |-> "alt", alts |-> alts, cap |-> cap]

\* $
End == [k |-> "end"]

InClass(c, cls) ==
    CASE cls = "."        -> c # "\n"
      [] cls = "\\d"      -> c \in Digit
      [] cls = "\\w"      -> c \in Word
      [] cls = "\\s"      -> c \in Whitespace
      [] cls = "[a-f0-9]" -> c \in Digit \cup {"a", "b", "c", "d", "e", "f"}
      [] cls = "[^)]"     -> c # ")"
      [] cls = "[Rr]"     -> c \in {"R", "r"}

\* how many characters of cls s has in a row from pos on
RunLen(s, pos, cls) ==
    LET stops == {i \in pos .. Len(s) : ~InClass(Ch(s, i), cls)}
    IN  IF stops = {} THEN Len(s) - pos + 1 ELSE Min(stops) - pos

LitAt(s, pos, lit, ignorecase) ==
    /\ pos + Len(lit) - 1 <= Len(s)
    /\ IF ignorecase
       THEN lower(SubSeq(s, pos, pos + Len(lit) - 1)) = lower(lit)
       ELSE SubSeq(s, pos, pos + Len(lit) - 1) = lit

NoMatch == [ok |-> FALSE]

NoGroups == [i \in 1 .. 4 |-> << >>]

RECURSIVE Match(_, _, _, _, _)
RECURSIVE TryRep(_, _, _, _, _, _, _)
RECURSIVE TryAlt(_, _, _, _, _, _, _)
Match(items, s, pos, groups, ignorecase) ==
    IF items = << >> THEN [ok |-> TRUE, groups |-> groups]
    ELSE LET it   == Head(items)
             rest == Tail(items)
         IN  CASE it.k = "lit" ->
                    IF LitAt(s, pos, it.s, ignorecase)
                    THEN Match(rest, s, pos + Len(it.s), groups, ignorecase)
                    ELSE NoMatch
               [] it.k = "one" ->
                    IF pos <= Len(s) /\ InClass(Ch(s, pos), it.cls)
                    THEN Match(rest, s, pos + 1, groups, ignorecase)
                    ELSE NoMatch
               [] it.k = "rep" ->
                    LET longest == RunLen(s, pos, it.cls)
                    IN  TryRep(it, rest, s, pos, groups, ignorecase, longest)
               [] it.k = "opt" ->
                    LET taken == Match(it.body \o rest, s, pos, groups, ignorecase)
                    IN  IF taken.ok THEN taken
                        ELSE Match(rest, s, pos, groups, ignorecase)
               [] it.k = "alt" ->
                    TryAlt(it, 1, rest, s, pos, groups, ignorecase)
               [] it.k = "end" ->
                    IF pos = Len(s) + 1 \/ (pos = Len(s) /\ Ch(s, pos) = "\n")
                    THEN Match(rest, s, pos, groups, ignorecase)
                    ELSE NoMatch

TryRep(it, rest, s, pos, groups, ignorecase, longest) ==
    LET Taking(n) ==
            Match(rest, s, pos + n,
                  IF it.cap = 0 THEN groups
                  ELSE [groups EXCEPT ![it.cap] = << SubSeq(s, pos, pos + n - 1) >>],
                  ignorecase)
        fits == {n \in it.min .. longest : Taking(n).ok}
    IN  IF fits = {} THEN NoMatch
        ELSE Taking(IF it.lazy THEN Min(fits) ELSE Max(fits))

TryAlt(it, a, rest, s, pos, groups, ignorecase) ==
    IF a > Len(it.alts) THEN NoMatch
    ELSE LET m == IF LitAt(s, pos, it.alts[a], ignorecase)
                  THEN Match(rest, s, pos + Len(it.alts[a]),
                             [groups EXCEPT ![it.cap] =
                                 << SubSeq(s, pos, pos + Len(it.alts[a]) - 1) >>],
                             ignorecase)
                  ELSE NoMatch
         IN  IF m.ok THEN m ELSE TryAlt(it, a + 1, rest, s, pos, groups, ignorecase)

re_match(pattern, s, ignorecase) == Match(pattern, s, 1, NoGroups, ignorecase)

\* m.group(i): None for a group that took no part in the match
group(m, i) == IF m.groups[i] = << >> THEN None ELSE m.groups[i][1]

(***************************************************************************)
(* GitHubFeed._parse_github_embed (github_feed.py:126-302).  An embed has  *)
(* a title, a description and a url, each a str or None, and an author:    *)
(* discord.py gives embed.author as a proxy of the author's fields, which  *)
(* is falsy when the embed has none and whose name is None when it has no  *)
(* name.                                                                   *)
(***************************************************************************)
NoRecord == [type |-> "none"]

\* r"\[(.+):(.+)\] (\d+) new commits?"
push_pattern ==
    << Lit("["), Rep(".", 1, FALSE, 1), Lit(":"), Rep(".", 1, FALSE, 2), Lit("] "),
       Rep("\\d", 1, FALSE, 3), Lit(" new commit"), Opt(<< Lit("s") >>) >>

\* the pattern with a greedy message: r"...\s+(.+)(?:\s+-\s+.+)?$"
commit_pattern_greedy ==
    << Lit("[^"), Rep("[a-f0-9]", 1, FALSE, 1), Lit("^]("), Rep("[^)]", 1, FALSE, 2),
       Lit(")"), Rep("\\s", 1, FALSE, 0), Rep(".", 1, FALSE, 3),
       Opt(<< Rep("\\s", 1, FALSE, 0), Lit("-"), Rep("\\s", 1, FALSE, 0),
              Rep(".", 1, FALSE, 0) >>),
       End >>

\* r"\[`([a-f0-9]+)`\]\(([^)]+)\)\s+(.+?)(?:\s+-\s+.+)?$"
commit_pattern ==
    << Lit("[^"), Rep("[a-f0-9]", 1, FALSE, 1), Lit("^]("), Rep("[^)]", 1, FALSE, 2),
       Lit(")"), Rep("\\s", 1, FALSE, 0), Rep(".", 1, TRUE, 3),
       Opt(<< Rep("\\s", 1, FALSE, 0), Lit("-"), Rep("\\s", 1, FALSE, 0),
              Rep(".", 1, FALSE, 0) >>),
       End >>

\* r"`([a-f0-9]+)`\s+(.+?)(?:\s+-\s+.+)?$"
plain_pattern ==
    << Lit("^"), Rep("[a-f0-9]", 1, FALSE, 1), Lit("^"), Rep("\\s", 1, FALSE, 0),
       Rep(".", 1, TRUE, 2),
       Opt(<< Rep("\\s", 1, FALSE, 0), Lit("-"), Rep("\\s", 1, FALSE, 0),
              Rep(".", 1, FALSE, 0) >>),
       End >>

\* r"\[(.+)\] Pull request #(\d+)\s+(.+?):\s+(.+)", re.IGNORECASE
pr_pattern ==
    << Lit("["), Rep(".", 1, FALSE, 1), Lit("] Pull request #"), Rep("\\d", 1, FALSE, 2),
       Rep("\\s", 1, FALSE, 0), Rep(".", 1, TRUE, 3), Lit(":"), Rep("\\s", 1, FALSE, 0),
       Rep(".", 1, FALSE, 4) >>

\* r"\[(.+)\] Pull request (\w+)\s*(?:#(\d+))?\s*(.*)", re.IGNORECASE
pr_pattern2 ==
    << Lit("["), Rep(".", 1, FALSE, 1), Lit("] Pull request "), Rep("\\w", 1, FALSE, 2),
       Rep("\\s", 0, FALSE, 0), Opt(<< Lit("#"), Rep("\\d", 1, FALSE, 3) >>),
       Rep("\\s", 0, FALSE, 0), Rep(".", 0, FALSE, 4) >>

\* r"\[(.+)\] Issue #(\d+)\s+(.+?):\s+(.+)", re.IGNORECASE
issue_pattern ==
    << Lit("["), Rep(".", 1, FALSE, 1), Lit("] Issue #"), Rep("\\d", 1, FALSE, 2),
       Rep("\\s", 1, FALSE, 0), Rep(".", 1, TRUE, 3), Lit(":"), Rep("\\s", 1, FALSE, 0),
       Rep(".", 1, FALSE, 4) >>

\* r"\[(.+)\] Issue (\w+)\s*(?:#(\d+))?\s*(.*)", re.IGNORECASE
issue_pattern2 ==
    << Lit("["), Rep(".", 1, FALSE, 1), Lit("] Issue "), Rep("\\w", 1, FALSE, 2),
       Rep("\\s", 0, FALSE, 0), Opt(<< Lit("#"), Rep("\\d", 1, FALSE, 3) >>),
       Rep("\\s", 0, FALSE, 0), Rep(".", 0, FALSE, 4) >>

\* r"\[(.+)\] New (\w+) created: `?(.+?)`?$", re.IGNORECASE
create_pattern ==
    << Lit("["), Rep(".", 1, FALSE, 1), Lit("] New "), Rep("\\w", 1, FALSE, 2),
       Lit(" created: "), Opt(<< Lit("^") >>), Rep(".", 1, TRUE, 3),
       Opt(<< Lit("^") >>), End >>

\* r"\[(.+)\] (\w+) deleted: `?(.+?)`?$", re.IGNORECASE
delete_pattern ==
    << Lit("["), Rep(".", 1, FALSE, 1), Lit("] "), Rep("\\w", 1, FALSE, 2),
       Lit(" deleted: "), Opt(<< Lit("^") >>), Rep(".", 1, TRUE, 3),
       Opt(<< Lit("^") >>), End >>

\* r"\[(.+)\] (?:New )?[Rr]elease (.+?)(?:\s+(published|created|drafted))?$"
release_pattern ==
    << Lit("["), Rep(".", 1, FALSE, 1), Lit("] "), Opt(<< Lit("New ") >>), One("[Rr]"),
       Lit("elease "), Rep(".", 1, TRUE, 2),
       Opt(<< Rep("\\s", 1, FALSE, 0), Alt(<< "published", "created", "drafted" >>, 3) >>),
       End >>

\* the commit of one line of a push description, if the line has one, given
\* what the two patterns make of the line
CommitFrom(line, url, commit_match, plain_match) ==
    IF line = "" THEN << >>
    ELSE IF commit_match.ok
    THEN << [sha |-> group(commit_match, 1), url |-> group(commit_match, 2),
             message |-> strip(group(commit_match, 3))] >>
    ELSE IF plain_match.ok
    THEN << [sha |-> group(plain_match, 1), url |-> url,
             message |-> strip(group(plain_match, 2))] >>
    ELSE << >>

CommitOf(line, url) ==
    CommitFrom(line, url, re_match(commit_pattern, line, FALSE),
               re_match(plain_pattern, line, FALSE))

\* for line in description.strip().split("\n"): ... commits.append(...)
RECURSIVE CommitsOf(_, _)
CommitsOf(lines, url) ==
    IF lines = << >> THEN << >>
    ELSE CommitOf(strip(Head(lines)), url) \o CommitsOf(Tail(lines), url)

\* commits without the cut
PrefixUncut(s, n) == s

\* commits[:n]
Prefix(s, n) == SubSeq(s, 1, IF Len(s) < n THEN Len(s) ELSE n)

\* the record of an embed, timestamp apart, or NoRecord, given what the
\* patterns make of its title
RecordOf(title, description, url, author_name, push_match, pr_match, pr_match2, issue_match, issue_match2, create_match, delete_match, release_match) ==
    IF push_match.ok
    THEN [type |-> "push", repo |-> group(push_match, 1), sender |-> author_name,
          branch |-> group(push_match, 2), pusher |-> author_name,
          commit_count |-> int(group(push_match, 3)),
          commits |-> Prefix(CommitsOf(split(strip(description), "\n"), url), 15),
          compare_url |-> url]
    ELSE IF pr_match.ok
    THEN [type |-> "pull_request", repo |-> group(pr_match, 1), sender |-> author_name,
          action |-> lower(strip(group(pr_match, 3))),
          pr_number |-> int(group(pr_match, 2)),
          pr_title |-> strip(group(pr_match, 4)), pr_url |-> url,
          head |-> "", base |-> "", merged |-> contains(lower(title), "merged"),
          additions |-> 0, deletions |-> 0, changed_files |-> 0]
    ELSE IF pr_match2.ok
    THEN [type |-> "pull_request", repo |-> group(pr_match2, 1), sender |-> author_name,
          action |-> lower(strip(group(pr_match2, 2))),
          pr_number |-> int(IF group(pr_match2, 3) = None THEN "0"
                            ELSE group(pr_match2, 3)),
          pr_title |-> strip(group(pr_match2, 4)), pr_url |-> url,
          head |-> "", base |-> "", merged |-> contains(lower(title), "merged"),
          additions |-> 0, deletions |-> 0, changed_files |-> 0]
    ELSE IF ~issue_match.ok /\ issue_match2.ok
    THEN [type |-> "issues", repo |-> group(issue_match2, 1), sender |-> author_name,
          action |-> lower(strip(group(issue_match2, 2))),
          issue_number |-> int(IF group(issue_match2, 3) = None THEN "0"
                               ELSE group(issue_match2, 3)),
          issue_title |-> strip(group(issue_match2, 4)), issue_url |-> url]
    ELSE IF issue_match.ok
    THEN [type |-> "issues", repo |-> group(issue_match, 1), sender |-> author_name,
          action |-> lower(strip(group(issue_match, 3))),
          issue_number |-> int(group(issue_match, 2)),
          issue_title |-> strip(group(issue_match, 4)), issue_url |-> url]
    ELSE IF create_match.ok
    THEN [type |-> "create", repo |-> group(create_match, 1), sender |-> author_name,
          ref_type |-> group(create_match, 2), ref |-> group(create_match, 3)]
    ELSE IF delete_match.ok
    THEN [type |-> "delete", repo |-> group(delete_match, 1), sender |-> author_name,
          ref_type |-> lower(group(delete_match, 2)), ref |-> group(delete_match, 3)]
    ELSE IF release_match.ok
    THEN [type |-> "release", repo |-> group(release_match, 1), sender |-> author_name,
          tag |-> strip(group(release_match, 2)),
          release_name |-> strip(group(release_match, 2)), release_url |-> url,
          action |-> IF group(release_match, 3) = None THEN "published"
                     ELSE group(release_match, 3)]
    ELSE NoRecord

NoneAsEmpty(v) == IF v = None THEN "" ELSE v

\* what is left of a match when another pattern is tried before its own
Unless(m, earlier) == IF earlier.ok THEN NoMatch ELSE m

\* the parser trying the loose form of a pull request or an issue title
\* before the strict one
NormalisedLooseFirst(title, description, url, author_name) ==
    RecordOf(title, description, url, author_name,
             re_match(push_pattern, title, FALSE),
             Unless(re_match(pr_pattern, title, TRUE), re_match(pr_pattern2, title, TRUE)),
             re_match(pr_pattern2, title, TRUE),
             Unless(re_match(issue_pattern, title, TRUE), re_match(issue_pattern2, title, TRUE)),
             re_match(issue_pattern2, title, TRUE), re_match(create_pattern, title, TRUE),
             re_match(delete_pattern, title, TRUE), re_match(release_pattern, title, FALSE))

\* title = embed.title or "" ... author_name = embed.author.name if embed.author
\* else "unknown", and the patterns in the order the code tries them
Normalised(title, description, url, author_name) ==
    RecordOf(title, description, url, author_name,
             re_match(push_pattern, title, FALSE), re_match(pr_pattern, title, TRUE),
             re_match(pr_pattern2, title, TRUE), re_match(issue_pattern, title, TRUE),
             re_match(issue_pattern2, title, TRUE), re_match(create_pattern, title, TRUE),
             re_match(delete_pattern, title, TRUE), re_match(release_pattern, title, FALSE))

ParseEmbed(embed) ==
    Normalised(NoneAsEmpty(embed.title), NoneAsEmpty(embed.description),
               NoneAsEmpty(embed.url),
               IF embed.author.present THEN embed.author.name ELSE "unknown")

(***************************************************************************)
(* The embeds of the model.                                                *)
(***************************************************************************)
\* an embed of the GitHub integration names the user who acted
Alice == [present |-> TRUE, name |-> "alice"]

\* an embed with no author
NoAuthor == [present |-> FALSE, name |-> None]

\* an embed whose author has an icon or a url and no name
Nameless == [present |-> TRUE, name |-> None]

Authors == {Alice, NoAuthor, Nameless}

Embed(title, description, author) ==
    [title |-> title, description |-> description,
     url |-> "https://github.com/F9-Global/adhub", author |-> author]

\* the lines of a push description (github_feed.py:147-148):
\*   [`sha`](url) message - author      `sha` message
Linked(sha, url, message, tail) ==
    [shape |-> "link", sha |-> sha, url |-> url, message |-> message, tail |-> tail]

Plain(sha, message, tail) ==
    [shape |-> "plain", sha |-> sha, url |-> "", message |-> message, tail |-> tail]

Line(c) ==
    IF c.shape = "link"
    THEN "[^" \o c.sha \o "^](" \o c.url \o ") " \o c.message \o c.tail
    ELSE "^" \o c.sha \o "^ " \o c.message \o c.tail

Describe(cs) == join("\n", [i \in DOMAIN cs |-> Line(cs[i])])

TwoLinked == << Linked("abc1234", "url1", "fix bug", ""), Linked("def5678", "url2", "add test", "") >>

PlainAndLinked ==
    << Plain("abc1234", "fix bug", " - alice"), Linked("def5678", "url2", "add test", " - bob") >>

OnePlain == << Plain("0a1b2c3", "bump deps", "") >>

\* one line more than the parser keeps
Sixteen ==
    [i \in 1 .. 16 |-> Linked("c0ffee" \o Ch("0123456789abcdef", i), "url", "change", "")]

SampleCommitLists == {TwoLinked, PlainAndLinked, OnePlain, Sixteen}

PushTitles ==
    {"[adhub:dev] 2 new commits",
     "[adhub:dev] 1 new commit",
     "[adhub:feature/x] 16 new commits",
     "[F9-Global/adhub:fix:typo] 3 new commits"}

PushDescriptions ==
    {Describe(cs) : cs \in SampleCommitLists}
        \cup {"", None, "Merge branch dev\n" \o Describe(TwoLinked) \o "\n\n"}

OtherTitles ==
    {"[adhub] Pull request opened: #42 add feature",
     "[adhub] Pull request #42 opened: add feature",
     "[adhub] Pull request #7 closed: Merged fix",
     "[adhub] Pull request merged #7 fix login",
     "[adhub] pull request CLOSED",
     "[adhub] Issue #18 opened: UUID missing",
     "[adhub] Issue opened: #18 UUID missing",
     "[adhub] Issue closed #18",
     "[adhub] New branch created: ^fix/identity^",
     "[adhub] New tag created: v1.2",
     "[adhub] Branch deleted: ^old^",
     "[adhub] New release v1.0 published",
     "[adhub] Release v2.0",
     "[adhub] release v3 drafted",
     "[adhub] Pull request opened] Pull request #7 closed: fix",
     "[adhub] Issue opened] Issue #7 closed: fix",
     "[adhub] Release v1] New tag created: x",
     "random chatter",
     "",
     None}

SampleEmbeds ==
    {Embed(title, description, Alice) : title \in PushTitles, description \in PushDescriptions}
        \cup {Embed(title, "", author) : title \in OtherTitles, author \in Authors}

PushEmbed == Embed("[adhub:dev] 1 new commit", "", Alice)

PullRequestEmbed == Embed("[adhub] Pull request #42 opened: add feature", "", Alice)

ChatterEmbed == Embed("random chatter", "", Alice)

PipelineEmbeds == {PushEmbed, PullRequestEmbed, ChatterEmbed}

\* a message of the GitHub integration in the feed channel with one embed
PushMessage == [channel |-> "feed", bot |-> TRUE, embeds |-> << PushEmbed >>]

\* the embeds the digests of the model are rendered from
Bob == [present |-> TRUE, name |-> "bob"]

Carol == [present |-> TRUE, name |-> "carol"]

DevPush(n, cs, author) ==
    Embed("[adhub:dev] " \o ToString(n) \o " new commit" \o (IF n = 1 THEN "" ELSE "s"),
          Describe(cs), author)

RECURSIVE Repeat(_, _)
Repeat(s, n) == IF n = 0 THEN "" ELSE s \o Repeat(s, n - 1)

\* a branch name of 228 characters: a ref name may have 255, the title of an
\* embed 256
LongBranch(k) == "team-" \o ToString(k) \o "/" \o Repeat("long-name-", 22) \o "x"

LongPush(k) == Embed("[adhub:" \o LongBranch(k) \o "] 1 new commit", "", Carol)

StagingPush == Embed("[adhub:staging] 1 new commit", Describe(OnePlain), Alice)

MergedEmbed == Embed("[adhub] Pull request #7 closed: Merged fix", "", Alice)

\* a pull request closed without a merge, one opened whose title has the word
\* "merged", and one whose action is "merged"
ClosedEmbed == Embed("[adhub] Pull request #9 closed: drop old api", "", Bob)

MergedViewsEmbed == Embed("[adhub] Pull request #8 opened: show MERGED views", "", Carol)

MergedActionEmbed == Embed("[adhub] Pull request merged #6 fix login", "", Alice)

CreateEmbed == Embed("[adhub] New branch created: ^fix/identity^", "", Bob)

DeleteEmbed == Embed("[adhub] Branch deleted: ^old^", "", Bob)

IssueEmbed == Embed("[adhub] Issue #18 opened: UUID missing", "", Carol)

ReleaseEmbed == Embed("[adhub] New release v1.0 published", "", Alice)

\* three pushes to dev by bob of 1, 2 and 1 commits, and a pull request
BobMessage ==
    [channel |-> "feed", bot |-> TRUE,
     embeds |-> << DevPush(1, OnePlain, Bob), DevPush(2, TwoLinked, Bob),
                   DevPush(1, OnePlain, Bob), PullRequestEmbed >>]

\* a push to another branch than dev, and a pull request
StagingMessage == [channel |-> "feed", bot |-> TRUE, embeds |-> << StagingPush, PullRequestEmbed >>]

\* pushes of one user to five branches with long names
LongMessage ==
    [channel |-> "feed", bot |-> TRUE, embeds |-> [k \in 1 .. 5 |-> LongPush(k)]]

\* an event of every type, out of the order of the digest's sections
EveryTypeMessage ==
    [channel |-> "feed", bot |-> TRUE,
     embeds |-> << ReleaseEmbed, IssueEmbed, DeleteEmbed, CreateEmbed, MergedEmbed,
                   ClosedEmbed, MergedViewsEmbed, MergedActionEmbed,
                   StagingPush, DevPush(2, TwoLinked, Alice), DevPush(16, Sixteen, Bob) >>]

ReleaseMessage == [channel |-> "feed", bot |-> TRUE, embeds |-> << ReleaseEmbed >>]

ChatterMessage == [channel |-> "feed", bot |-> TRUE, embeds |-> << ChatterEmbed >>]

RenderShapes ==
    {BobMessage, StagingMessage, LongMessage, EveryTypeMessage, ReleaseMessage,
     ChatterMessage}

RenderEmbeds == UNION {{shape.embeds[i] : i \in DOMAIN shape.embeds} : shape \in RenderShapes}

\* _parse_github_embed over the embeds the model posts
Parsed ==
    [embed \in SampleEmbeds \cup PipelineEmbeds \cup RenderEmbeds |-> ParseEmbed(embed)]

\* record = self._parse_github_embed(embed): a record stamped now = t, or None
Stamped(record, t) == IF record = NoRecord THEN NoRecord ELSE [timestamp |-> t] @@ record

\* Parsed holds what the parser makes of the embeds of the integration; an
\* embed of the bot itself is parsed as it arrives
_parse_github_embed(embed, t) ==
    Stamped(IF embed \in DOMAIN Parsed THEN Parsed[embed] ELSE ParseEmbed(embed), t)

\* one with two embeds, the first of which no grammar matches
MixedMessage == [channel |-> "feed", bot |-> TRUE, embeds |-> << ChatterEmbed, PullRequestEmbed >>]

FeedShapes == {PushMessage, MixedMessage}

\* the integration's messages with one embed each, over the sample embeds
SampleShapes == {[channel |-> "feed", bot |-> TRUE, embeds |-> << embed >>] : embed \in SampleEmbeds}

\* test_digest.py:16-134, cut to its first event
MOCK_EVENTS ==
    << [type |-> "push", timestamp |-> StartTime - 5 * 60, repo |-> "AdhubOrg/adhub",
        sender |-> "ferret9", branch |-> "staging", pusher |-> "ferret9",
        commit_count |-> 1,
        commits |-> << [sha |-> "085e45a",
                        message |-> "fix(deploy): add uuid to production dependencies",
                        url |-> "https://github.com/AdhubOrg/adhub/commit/085e45a"] >>,
        compare_url |-> "https://github.com/AdhubOrg/adhub/compare/staging"] >>

(***************************************************************************)
(* The digest: Reminders._build_activity_digest and the embeds of          *)
(* _send_rebase_digest (reminders.py:80-286), and the layouts of           *)
(* test_digest.py.  An embed is its title, its description and its fields. *)
(***************************************************************************)
\* a < b as Python orders two str
StrLess(a, b) ==
    LET shorter == IF Len(a) < Len(b) THEN Len(a) ELSE Len(b)
        differ  == {i \in 1 .. shorter : Ch(a, i) # Ch(b, i)}
    IN  IF differ = {} THEN Len(a) < Len(b)
        ELSE ord(Ch(a, Min(differ))) < ord(Ch(b, Min(differ)))

\* sorted(S), S a set of str
RECURSIVE sorted(_)
sorted(S) ==
    IF S = {} THEN << >>
    ELSE LET least == CHOOSE a \in S : \A b \in S \ {a} : StrLess(a, b)
         IN  << least >> \o sorted(S \ {least})

\* "".join(f(x) for x in xs)
RECURSIVE Concat(_)
Concat(parts) == IF parts = << >> THEN "" ELSE Head(parts) \o Concat(Tail(parts))

\* the elements of xs at the indices idxs, in their order
Pick(xs, idxs) ==
    [k \in 1 .. Cardinality(idxs) |->
        xs[CHOOSE i \in idxs : Cardinality({j \in idxs : j <= i}) = k]]

\* [x for x in xs if ...]
Select(xs, Keep(_)) == Pick(xs, {i \in DOMAIN xs : Keep(xs[i])})

\* the keys of a dict in the order they were first set
Keys(xs, Key(_)) ==
    LET first == Pick(xs, {i \in DOMAIN xs : \A j \in 1 .. (i - 1) : Key(xs[j]) # Key(xs[i])})
    IN  [k \in DOMAIN first |-> Key(first[k])]

RECURSIVE Sum(_)
Sum(ns) == IF ns = << >> THEN 0 ELSE Head(ns) + Sum(Tail(ns))

RECURSIVE Flat(_)
Flat(ss) == IF ss = << >> THEN << >> ELSE Head(ss) \o Flat(Tail(ss))

Plural(n) == IF n # 1 THEN "s" ELSE ""

\* now.strftime('%I:%M %p')
TwoDigits(n) == IF n < 10 THEN "0" \o ToString(n) ELSE ToString(n)

strftime(t) ==
    TwoDigits(IF Hour(t) % 12 = 0 THEN 12 ELSE Hour(t) % 12) \o ":" \o TwoDigits(Minute(t))
        \o (IF Hour(t) < 12 THEN " AM" ELSE " PM")

\* the events of one type, in their order
OfType(events, type) == Select(events, LAMBDA e : e.type = type)

\* pushes_by_user with `commit_count += 1` for each push
pushes_by_user_counting(events) ==
    LET pushes == OfType(events, "push")
        users  == Keys(pushes, LAMBDA e : e.pusher)
    IN  [u \in DOMAIN users |->
            LET own == Select(pushes, LAMBDA e : e.pusher = users[u])
            IN  [user |-> users[u],
                 branches |-> {own[i].branch : i \in DOMAIN own},
                 commit_count |-> Len(own),
                 commits |-> Flat([i \in DOMAIN own |-> own[i].commits])]]

\* pushes_by_user (reminders.py:96-110): per pusher, in the order of their
\* first push, the branches, the commit count and the commits of their pushes
pushes_by_user(events) ==
    LET pushes == OfType(events, "push")
        users  == Keys(pushes, LAMBDA e : e.pusher)
    IN  [u \in DOMAIN users |->
            LET own == Select(pushes, LAMBDA e : e.pusher = users[u])
            IN  [user |-> users[u],
                 branches |-> {own[i].branch : i \in DOMAIN own},
                 commit_count |-> Sum([i \in DOMAIN own |-> own[i].commit_count]),
                 commits |-> Flat([i \in DOMAIN own |-> own[i].commits])]]

\* reminders.py:128-138
PushLines(data) ==
    "**" \o str(data.user) \o "** ~ " \o ToString(data.commit_count) \o " commits on "
        \o join(", ", LET bs == sorted(data.branches)
                      IN  [i \in DOMAIN bs |-> "^" \o bs[i] \o "^"])
        \o "\n"
        \o Concat(LET cs == Prefix(data.commits, 5)
                  IN  [i \in DOMAIN cs |->
                          "  [^" \o cs[i].sha \o "^](" \o cs[i].url \o ") "
                              \o cs[i].message \o "\n"])
        \o (IF Len(data.commits) > 5
            THEN "  ... and " \o ToString(Len(data.commits) - 5) \o " more\n" ELSE "")
        \o "\n"

\* the line of a pull request with its action as it is
PrLineRaw(pr) ==
    "[#" \o ToString(pr.pr_number) \o "](" \o pr.pr_url \o ") **" \o pr.pr_title
        \o "** (" \o pr.action \o ") by " \o str(pr.sender) \o "\n"
        \o "  ^" \o pr.head \o "^ -> ^" \o pr.base \o "^ | +"
        \o ToString(pr.additions) \o " -" \o ToString(pr.deletions) \o " ("
        \o ToString(pr.changed_files) \o " files)\n\n"

\* reminders.py:150-167
PrLine(pr) ==
    LET icon == IF pr.action = "closed" /\ pr.merged THEN "merged" ELSE pr.action
    IN  "[#" \o ToString(pr.pr_number) \o "](" \o pr.pr_url \o ") **" \o pr.pr_title
            \o "** (" \o icon \o ") by " \o str(pr.sender) \o "\n"
            \o "  ^" \o pr.head \o "^ -> ^" \o pr.base \o "^ | +"
            \o ToString(pr.additions) \o " -" \o ToString(pr.deletions) \o " ("
            \o ToString(pr.changed_files) \o " files)\n\n"

\* reminders.py:178-181
BranchLine(b) ==
    IF b.type = "create" THEN "+ ^" \o b.ref \o "^ created by " \o str(b.sender)
    ELSE "- ^" \o b.ref \o "^ deleted by " \o str(b.sender)

\* reminders.py:194-199
IssueLine(iss) ==
    "[#" \o ToString(iss.issue_number) \o "](" \o iss.issue_url \o ") **" \o iss.issue_title
        \o "** (" \o iss.action \o ") by " \o str(iss.sender) \o "\n"

\* reminders.py:210-215
ReleaseLine(rel) ==
    "[" \o rel.tag \o "](" \o rel.release_url \o ") **" \o rel.release_name \o "** ("
        \o rel.action \o ") by " \o str(rel.sender) \o "\n"

Lines(xs, Line_(_)) == Concat([i \in DOMAIN xs |-> Line_(xs[i])])

\* an embed whose title has the form of a release title of the integration
DiscordEmbedBracketed(section, title, description) ==
    [section |-> section, title |-> "[adhub] Release " \o title,
     description |-> description, fields |-> << >>]

\* discord.Embed(title=..., description=...); section names the embed
DiscordEmbed(section, title, description) ==
    [section |-> section, title |-> title, description |-> description, fields |-> << >>]

\* Reminders._build_activity_digest
_build_activity_digest(events) ==
    LET by_user  == pushes_by_user(events)
        prs      == OfType(events, "pull_request")
        branches == OfType(events, "create") \o OfType(events, "delete")
        issues_list == OfType(events, "issues")
        releases == OfType(events, "release")
        total_commits == Sum([u \in DOMAIN by_user |-> by_user[u].commit_count])
    IN  (IF by_user # << >>
         THEN << DiscordEmbed("pushes",
                    "Pushes ~ " \o ToString(total_commits) \o " commits by "
                        \o ToString(Len(by_user)) \o " dev" \o Plural(Len(by_user)),
                    Prefix(Lines(by_user, PushLines), 4096)) >>
         ELSE << >>)
        \o (IF prs # << >>
            THEN << DiscordEmbed("pull_requests",
                       "Pull Requests ~ " \o ToString(Len(prs)) \o " PR" \o Plural(Len(prs)),
                       Prefix(Lines(prs, PrLine), 4096)) >>
            ELSE << >>)
        \o (IF branches # << >>
            THEN << DiscordEmbed("branches",
                       "Branches ~ " \o ToString(Len(branches)) \o " change"
                           \o Plural(Len(branches)),
                       Prefix(join("\n", [i \in DOMAIN branches |-> BranchLine(branches[i])]),
                           4096)) >>
            ELSE << >>)
        \o (IF issues_list # << >>
            THEN << DiscordEmbed("issues", "Issues ~ " \o ToString(Len(issues_list)),
                       Prefix(Lines(issues_list, IssueLine), 4096)) >>
            ELSE << >>)
        \o (IF releases # << >>
            THEN << DiscordEmbed("releases", "Releases ~ " \o ToString(Len(releases)),
                       Prefix(Lines(releases, ReleaseLine), 4096)) >>
            ELSE << >>)

\* Reminders._build_timezone_string for the zones of TIMEZONE_TABLE, each
\* in its standard time; the date of strftime's %b %d is left out
TIMEZONE_TABLE ==
    << [label |-> "UTC+8 (PH/SG/HK)", behind |-> 0], [label |-> "UTC", behind |-> 8],
       [label |-> "EST (US East)", behind |-> 13], [label |-> "PST (US West)", behind |-> 16],
       [label |-> "JST (Japan)", behind |-> -1], [label |-> "GMT (London)", behind |-> 8] >>

_build_timezone_string(t) ==
    join("\n", [i \in DOMAIN TIMEZONE_TABLE |->
                   "**" \o TIMEZONE_TABLE[i].label \o ":** "
                       \o strftime(t + DayLen - TIMEZONE_TABLE[i].behind * 60)])

\* the header embed of _send_rebase_digest (reminders.py:235-279)
header_embed(events, t) ==
    DiscordEmbed("header",
        "Rebase Digest ~ " \o (IF Hour(t) = 12 THEN "Midday" ELSE "End of Day") \o " ("
            \o strftime(t) \o " UTC+8)",
        "**" \o (IF Hour(t) = 12
                 THEN "Lunch break rebase! Sync with ^dev^ before the afternoon push."
                 ELSE "EOD rebase checkpoint! Sync with ^dev^ before wrapping up for the day.")
            \o "**\n\n**Schedule across timezones:**\n" \o _build_timezone_string(t) \o "\n\n"
            \o (IF events # << >>
                THEN "**" \o ToString(Len(events)) \o " events** since last digest:\n"
                ELSE "No GitHub activity since the last digest.\n")
            \o "\n^^^bash\n# From your feature branch:\ngit fetch origin\n"
            \o "git rebase origin/dev\n# Resolve any conflicts, then:\n"
            \o "git push --force-with-lease\n^^^")

\* all_embeds = [header_embed] + activity_embeds[:9]
all_embeds(events, t) ==
    << header_embed(events, t) >> \o Prefix(_build_activity_digest(events), 9)

\* activity_preview (reminders.py:347-364): what the command sends
preview_embeds(events) ==
    IF events = << >>
    THEN << DiscordEmbed("preview", "Activity Preview",
                         "No events buffered since last digest.") >>
    ELSE << DiscordEmbed("preview",
                "Activity Preview ~ " \o ToString(Len(events)) \o " events buffered",
                "This is what will be included in the next rebase digest. "
                    \o "Events are NOT cleared by this preview.") >>
             \o Prefix(_build_activity_digest(events), 9)

\* _group_events (test_digest.py:137-166): pushes to dev and to other
\* branches per pusher, and the events of the other types but releases
_group_events(events) ==
    LET pushes == OfType(events, "push")
        dev    == Select(pushes, LAMBDA e : e.branch = "dev")
        other  == Select(pushes, LAMBDA e : e.branch # "dev")
    IN  [dev_pushes |-> pushes_by_user(dev),
         other_pushes |-> pushes_by_user(other),
         prs |-> OfType(events, "pull_request"),
         branches_created |-> OfType(events, "create"),
         branches_deleted |-> OfType(events, "delete"),
         issues_list |-> OfType(events, "issues")]

Field(name, value) == [name |-> name, value |-> value]

\* test_digest.py:194-197, 269-272
ShownAction(pr) == IF pr.action = "closed" /\ pr.merged THEN "merged" ELSE pr.action

\* test_digest.py:213-216, 297-300
OtherParts(other_pushes) ==
    [u \in DOMAIN other_pushes |->
        str(other_pushes[u].user) \o ": " \o ToString(other_pushes[u].commit_count)
            \o " on " \o join(", ", sorted(other_pushes[u].branches))]

\* build_design_2 (test_digest.py:232-312): one embed with a field per section
build_design_2(events, t) ==
    LET g     == _group_events(events)
        total(pushes) == Sum([u \in DOMAIN pushes |-> pushes[u].commit_count])
        DevLines(data) ==
            "**" \o str(data.user) \o "** ~ " \o ToString(data.commit_count) \o "\n"
                \o Concat(LET cs == Prefix(data.commits, 3)
                          IN  [i \in DOMAIN cs |->
                                  "^" \o cs[i].sha \o "^ " \o cs[i].message \o "\n"])
                \o (IF Len(data.commits) > 3
                    THEN "*+" \o ToString(Len(data.commits) - 3) \o " more*\n" ELSE "")
        PrLine2(pr) ==
            "#" \o ToString(pr.pr_number) \o " " \o pr.pr_title \o " (*" \o ShownAction(pr)
                \o "*)\n"
        Created(b) == "~ ^" \o b.ref \o "^\n"
        IssueLine2(iss) == "#" \o ToString(iss.issue_number) \o " " \o iss.issue_title \o "\n"
    IN  << [section |-> "design_2",
            title |-> "Rebase ~ " \o (IF Hour(t) = 12 THEN "Midday" ELSE "End of Day"),
            description |->
                "**" \o strftime(t) \o " UTC+8** ~ Sync your branch with ^dev^\n"
                    \o "^^^git fetch origin && git rebase origin/dev^^^",
            fields |->
                (IF g.dev_pushes # << >>
                 THEN << Field("~ Commits to dev (" \o ToString(total(g.dev_pushes)) \o ")",
                               Prefix(Lines(g.dev_pushes, DevLines), 1024)) >>
                 ELSE << >>)
                \o (IF g.prs # << >>
                    THEN << Field("~ Pull Requests (" \o ToString(Len(g.prs)) \o ")",
                                  Prefix(Lines(g.prs, PrLine2), 1024)) >>
                    ELSE << >>)
                \o (IF g.branches_created # << >> \/ g.branches_deleted # << >>
                    THEN << Field("~ Branches",
                                  Prefix(Lines(g.branches_created, Created)
                                          \o Lines(g.branches_deleted, Created), 1024)) >>
                    ELSE << >>)
                \o (IF g.issues_list # << >>
                    THEN << Field("~ Issues", Prefix(Lines(g.issues_list, IssueLine2), 1024)) >>
                    ELSE << >>)
                \o (IF g.other_pushes # << >>
                    THEN << Field("Other branches",
                                  "-# " \o join(" | ", OtherParts(g.other_pushes)) \o " ("
                                      \o ToString(total(g.other_pushes)) \o " commits)") >>
                    ELSE << >>)
                \o (IF events = << >>
                    THEN << Field("~", "*No activity since last digest.*") >>
                    ELSE << >>)] >>

\* build_design_1 (test_digest.py:169-229): one embed, the sections in its
\* description
build_design_1(events, t) ==
    LET g     == _group_events(events)
        total(pushes) == Sum([u \in DOMAIN pushes |-> pushes[u].commit_count])
        DevLines(data) ==
            "> **" \o str(data.user) \o "** pushed " \o ToString(data.commit_count) \o "\n"
                \o Concat(LET cs == Prefix(data.commits, 3)
                          IN  [i \in DOMAIN cs |->
                                  "> ^" \o cs[i].sha \o "^ " \o cs[i].message \o "\n"])
                \o (IF Len(data.commits) > 3
                    THEN "> *... +" \o ToString(Len(data.commits) - 3) \o " more*\n" ELSE "")
        PrLine1(pr) ==
            "> #" \o ToString(pr.pr_number) \o " " \o pr.pr_title \o " (*" \o ShownAction(pr)
                \o "*)\n"
        IssueLine1(iss) ==
            "**Issue** #" \o ToString(iss.issue_number) \o " " \o iss.issue_title \o " (*"
                \o iss.action \o "*)\n"
        items == [i \in DOMAIN g.branches_created |-> "+ ^" \o g.branches_created[i].ref \o "^"]
                     \o [i \in DOMAIN g.branches_deleted |->
                            "- ^" \o g.branches_deleted[i].ref \o "^"]
        desc ==
            "^^^git fetch origin && git rebase origin/dev^^^\n"
                \o (IF g.dev_pushes # << >>
                    THEN "**Commits to ^dev^** (" \o ToString(total(g.dev_pushes)) \o ")\n"
                             \o Lines(g.dev_pushes, DevLines) \o "\n"
                    ELSE "")
                \o (IF g.prs # << >>
                    THEN "**Pull Requests** (" \o ToString(Len(g.prs)) \o ")\n"
                             \o Lines(g.prs, PrLine1) \o "\n"
                    ELSE "")
                \o (IF items # << >> THEN "**Branches** " \o join(" ", items) \o "\n" ELSE "")
                \o Lines(g.issues_list, IssueLine1)
                \o (IF g.other_pushes # << >>
                    THEN "\n-# Other branches (" \o ToString(total(g.other_pushes))
                             \o " commits): " \o join(" | ", OtherParts(g.other_pushes))
                    ELSE "")
                \o (IF events = << >> THEN "*No activity since last digest.*" ELSE "")
    IN  << [section |-> "design_1",
            title |-> "Rebase ~ " \o (IF Hour(t) = 12 THEN "Midday" ELSE "End of Day") \o " ("
                          \o strftime(t) \o " UTC+8)",
            description |-> Prefix(desc, 4096),
            fields |-> << >>] >>

(***************************************************************************)
(* State.                                                                  *)
(***************************************************************************)
VARIABLES
    now,          \* the wall clock
    env,          \* which of GITHUB_FEED_CHANNEL_ID, REMINDERS_CHANNEL_ID are set
    up,           \* the process is running
    life,         \* the number of the process lifetime
    ready,        \* the bot has been ready in this lifetime (wait_until_ready)
    history,      \* the messages of the chat platform, oldest first
    pending,      \* on_message events dispatched and not yet handled
    heap,         \* the list objects: event_buffer, and a list a peek returned
    backfilled,   \* GitHubFeed._backfilled
    scans,        \* the _backfill coroutines suspended in channel.history
    loop,         \* the tasks.loop of rebase_reminder
    sending,      \* per invoker, the digest suspended in channel.send
    peekRef,      \* the list the last peek_buffer caller holds
    readyCalls,   \* on_ready events of this lifetime
    testRuns,     \* /test-digest invocations of this lifetime
    appended,     \* history: the events appended in this lifetime, in order
    lastDrainAt,  \* history: how many had been appended at the last drain
    handled,      \* history: messages on_github_embed has run for in this lifetime
    scanned,      \* history: messages a history scan of this lifetime went over
    nScans,       \* history: history scans started in this lifetime
    digestLog,    \* history: the event lists of this lifetime's digests, in order
    delivered,    \* history: numbers of the events of digests that were sent
    seen,         \* history: (message, embed) pairs that reached a buffer
    raised,       \* history: routines of this lifetime an exception came out of
    fired         \* history: what rebase_reminder fired, and the minute it read

vars == << now, env, up, life, ready, history, pending, heap, backfilled, scans,
           loop, sending, peekRef, readyCalls, testRuns, appended, lastDrainAt,
           handled, scanned, nScans, digestLog, delivered, seen, raised, fired >>

Invokers == {"tick", "cmd"}

Idle == [pc |-> "idle", events |-> << >>]

EmptyHeap == [event_buffer |-> << >>, peeked |-> << >>]

Configured == [feed |-> TRUE, reminders |-> TRUE]

\* GitHubFeed.__init__ and Reminders.cog_load, both channels configured
Init ==
    /\ now = StartTime
    /\ env = Configured
    /\ up = TRUE
    /\ life = 1
    /\ ready = FALSE
    /\ history = << >>
    /\ pending = << >>
    /\ heap = EmptyHeap
    /\ backfilled = FALSE
    /\ scans = << >>
    /\ loop = "running"
    /\ sending = [i \in Invokers |-> Idle]
    /\ peekRef = "none"
    /\ readyCalls = 0
    /\ testRuns = 0
    /\ appended = << >>
    /\ lastDrainAt = 0
    /\ handled = {}
    /\ scanned = {}
    /\ nScans = 0
    /\ digestLog = << >>
    /\ delivered = {}
    /\ seen = {}
    /\ raised = {}
    /\ fired = {}

(***************************************************************************)
(* The event buffer (github_feed.py:88-96).  A Python list is an object:   *)
(* copy() makes a new one, clear() empties the one it is called on.        *)
(***************************************************************************)
\* list.append on self.event_buffer (github_feed.py:76, 121)
append(h, record) == [h EXCEPT !.event_buffer = Append(@, record)]

\* drain_buffer without the copy: `events` is the buffer itself, which clear()
\* empties before it is returned
drain_buffer_aliased(h) ==
    LET h2 == [h EXCEPT !.event_buffer = << >>]
    IN  [events |-> h2.event_buffer, heap |-> h2]

\* drain_buffer without the clear()
drain_buffer_uncleared(h) ==
    [events |-> h.event_buffer, heap |-> h]

\* events = self.event_buffer.copy(); self.event_buffer.clear(); return events
drain_buffer(h) ==
    LET events == h.event_buffer
        h2     == [h EXCEPT !.event_buffer = << >>]
    IN  [events |-> events, heap |-> h2]

\* peek_buffer without the copy: the caller gets the buffer itself
peek_buffer_aliased(h) ==
    [ref |-> "event_buffer", heap |-> h]

\* return self.event_buffer.copy(): the caller gets a list of its own
peek_buffer(h) ==
    [ref |-> "peeked", heap |-> [h EXCEPT !.peeked = h.event_buffer]]

Buffer == heap.event_buffer

(***************************************************************************)
(* Events.  src, idx, via and n say where an event came from and number    *)
(* the appends of a lifetime; the other fields are the program's.          *)
(***************************************************************************)
Event(record, src, idx, via) ==
    [src |-> src, idx |-> idx, via |-> via, n |-> 0] @@ record

Numbered(e, k) == [e EXCEPT !.n = k]

\* for embed in message.embeds: record = parse(embed); if record: ...
\* (github_feed.py:71-77 and 118-121): the events of one message, in order.
\* ts is the event's timestamp: the parse time, or what _backfill sets.
\* the loop without `if record`: an event for every embed
RECURSIVE MessageEventsUnchecked(_, _, _, _, _)
MessageEventsUnchecked(id, embeds, i, via, ts) ==
    IF i > Len(embeds) THEN << >>
    ELSE << Event(_parse_github_embed(embeds[i], ts), id, i, via) >>
             \o MessageEventsUnchecked(id, embeds, i + 1, via, ts)

\* if record: self.event_buffer.append(record)
IfRecord(record, id, i, via) ==
    IF record # NoRecord THEN << Event(record, id, i, via) >> ELSE << >>

RECURSIVE MessageEvents(_, _, _, _, _)
MessageEvents(id, embeds, i, via, ts) ==
    IF i > Len(embeds) THEN << >>
    ELSE IfRecord(_parse_github_embed(embeds[i], ts), id, i, via)
             \o MessageEvents(id, embeds, i + 1, via, ts)

\* appending a list of events one by one, numbering them from k0 + 1
RECURSIVE AppendAll(_, _, _)
AppendAll(h, evs, k0) ==
    IF evs = << >> THEN h
    ELSE AppendAll(append(h, Numbered(Head(evs), k0 + 1)), Tail(evs), k0 + 1)

\* the log of appends, with evs added
RECURSIVE Logged(_, _)
Logged(log, evs) ==
    IF evs = << >> THEN log
    ELSE Logged(Append(log, Numbered(Head(evs), Len(log) + 1)), Tail(evs))

Pairs(evs) == { << evs[i].src, evs[i].idx >> : i \in DOMAIN evs }

Numbers(evs) == { evs[i].n : i \in DOMAIN evs }

(***************************************************************************)
(* The chat platform and the clock.                                        *)
(***************************************************************************)
\* a message is posted; the gateway dispatches on_message to a running bot
PostMessage(shape) ==
    /\ Len(history) < MaxMsgs
    /\ history' = Append(history,
                         [channel |-> shape.channel, bot |-> shape.bot,
                          embeds |-> shape.embeds, created_at |-> now])
    /\ pending' = IF up THEN Append(pending, Len(history) + 1) ELSE pending
    /\ UNCHANGED << now, env, up, life, ready, heap, backfilled, scans,
                    loop, sending, peekRef, readyCalls, testRuns, appended,
                    lastDrainAt, handled, scanned, nScans, digestLog,
                    delivered, seen, raised, fired >>

AdvanceTime ==
    /\ \E t \in Instants : t > now
    /\ now' = Min({t \in Instants : t > now})
    /\ UNCHANGED << env, up, life, ready, history, pending, heap,
                    backfilled, scans, loop, sending, peekRef, readyCalls,
                    testRuns, appended, lastDrainAt, handled, scanned,
                    nScans, digestLog, delivered, seen, raised, fired >>

(***************************************************************************)
(* GitHubFeed.on_github_embed (github_feed.py:100-124).                    *)
(***************************************************************************)
\* on_github_embed without the test of the channel
LiveEventsAnyChannel(id, m) ==
    IF ~m.bot THEN << >>
    ELSE IF m.embeds = << >> THEN << >>
    ELSE MessageEvents(id, m.embeds, 1, "live", now)

\* the events on_github_embed appends for message m
LiveEvents(id, m) ==
    IF ~env.feed THEN << >>
    ELSE IF m.channel # "feed" THEN << >>
    ELSE IF ~m.bot THEN << >>
    ELSE IF m.embeds = << >> THEN << >>
    ELSE MessageEvents(id, m.embeds, 1, "live", now)

on_github_embed ==
    /\ up
    /\ pending # << >>
    /\ LET id  == Head(pending)
           evs == LiveEvents(id, history[id])
       IN  /\ heap' = AppendAll(heap, evs, Len(appended))
           /\ appended' = Logged(appended, evs)
           /\ seen' = seen \cup Pairs(evs)
           /\ handled' = handled \cup {id}
    /\ pending' = Tail(pending)
    /\ UNCHANGED << now, env, up, life, ready, history, backfilled, scans,
                    loop, sending, peekRef, readyCalls, testRuns,
                    lastDrainAt, scanned, nScans, digestLog, delivered,
                    raised, fired >>

(***************************************************************************)
(* GitHubFeed.on_ready_backfill and _backfill (github_feed.py:25-80).      *)
(***************************************************************************)
\* _backfill without its guard
BackfillNeverSkips(flag) == FALSE

\* if self._backfilled: return
BackfillSkips(flag) == flag

\* on_ready: _backfill up to its await of channel.history
on_ready_backfill ==
    /\ up
    /\ readyCalls < MaxReady
    /\ ready' = TRUE
    /\ readyCalls' = readyCalls + 1
    /\ IF BackfillSkips(backfilled)
       THEN UNCHANGED << backfilled, scans, nScans >>
       ELSE /\ backfilled' = TRUE
            /\ IF ~env.feed
               THEN UNCHANGED << scans, nScans >>
               ELSE /\ scans' = Append(scans, [cutoff |-> _last_rebase_time(now)])
                    /\ nScans' = nScans + 1
    /\ UNCHANGED << now, env, up, life, history, pending, heap, loop,
                    sending, peekRef, testRuns, appended, lastDrainAt,
                    handled, scanned, digestLog, delivered, seen, raised,
                    fired >>

\* channel.history(after=cutoff, limit=HistoryLimit, oldest_first=True): the
\* ids of the feed channel's messages after the cutoff, oldest first.  A
\* message posted in the minute of the cutoff is after it.
RECURSIVE IdsAfter(_, _)
IdsAfter(i, cutoff) ==
    IF i > Len(history) THEN << >>
    ELSE (IF history[i].channel = "feed" /\ history[i].created_at >= cutoff
          THEN << i >> ELSE << >>) \o IdsAfter(i + 1, cutoff)

\* how many messages an entry of the history stands for
CountOf(m) == IF "count" \in DOMAIN m THEN m.count ELSE 1

ChannelHistory(cutoff, limit) ==
    LET ids == IdsAfter(1, cutoff)
        Before(k) == Sum([j \in 1 .. (k - 1) |-> CountOf(history[ids[j]])])
    IN  Pick(ids, {k \in DOMAIN ids : Before(k) < limit})

\* _backfill skipping a message the buffer already holds an event of
BackfillEventsDeduplicated(id, m) ==
    IF \E i \in DOMAIN heap.event_buffer : heap.event_buffer[i].src = id THEN << >>
    ELSE IF ~m.bot THEN << >>
    ELSE IF m.embeds = << >> THEN << >>
    ELSE MessageEvents(id, m.embeds, 1, "backfill", m.created_at)

\* the events _backfill appends for message m (github_feed.py:67-77)
BackfillEvents(id, m) ==
    IF ~m.bot THEN << >>
    ELSE IF m.embeds = << >> THEN << >>
    ELSE MessageEvents(id, m.embeds, 1, "backfill", m.created_at)

RECURSIVE ScanEvents(_)
ScanEvents(ids) ==
    IF ids = << >> THEN << >>
    ELSE BackfillEvents(Head(ids), history[Head(ids)]) \o ScanEvents(Tail(ids))

RemoveAt(s, k) == SubSeq(s, 1, k - 1) \o SubSeq(s, k + 1, Len(s))

\* the history arrives and the loop body runs over it
BackfillScan(k) ==
    /\ up
    /\ k \in DOMAIN scans
    /\ LET ids == ChannelHistory(scans[k].cutoff, HistoryLimit)
           evs == ScanEvents(ids)
       IN  /\ heap' = AppendAll(heap, evs, Len(appended))
           /\ appended' = Logged(appended, evs)
           /\ seen' = seen \cup Pairs(evs)
           /\ scanned' = scanned \cup {ids[i] : i \in DOMAIN ids}
    /\ scans' = RemoveAt(scans, k)
    /\ UNCHANGED << now, env, up, life, ready, history, pending, backfilled,
                    loop, sending, peekRef, readyCalls, testRuns,
                    lastDrainAt, handled, nScans, digestLog, delivered,
                    raised, fired >>

\* channel.history raises: nothing in _backfill or on_ready_backfill catches it
BackfillFetchFails(k) ==
    /\ up
    /\ k \in DOMAIN scans
    /\ scans' = RemoveAt(scans, k)
    /\ raised' = raised \cup {"_backfill"}
    /\ UNCHANGED << now, env, up, life, ready, history, pending, heap,
                    backfilled, loop, sending, peekRef, readyCalls,
                    testRuns, appended, lastDrainAt, handled, scanned,
                    nScans, digestLog, delivered, seen, fired >>
(***************************************************************************)
(* Reminders._send_rebase_digest (reminders.py:225-286), up to its await   *)
(* of channel.send.  The embeds are built from `events` before the await,  *)
(* so the digest in flight is the list drain_buffer returned.              *)
(***************************************************************************)
\* the routine draining the buffer before it looks for the channel
_send_rebase_digest_draining_first(inv) ==
    LET d == drain_buffer(heap)
    IN  /\ heap' = d.heap
        /\ sending' = IF ~env.reminders THEN sending
                      ELSE [sending EXCEPT ![inv] = [pc |-> "sending", events |-> d.events]]
        /\ digestLog' = digestLog \o d.events
        /\ lastDrainAt' = Len(appended)

_send_rebase_digest(inv) ==
    IF ~env.reminders
    THEN UNCHANGED << heap, sending, digestLog, lastDrainAt >>
    ELSE LET d == drain_buffer(heap)
         IN  /\ heap' = d.heap
             /\ sending' = [sending EXCEPT ![inv] = [pc |-> "sending", events |-> d.events]]
             /\ digestLog' = digestLog \o d.events
             /\ lastDrainAt' = Len(appended)

\* channel.send returns
SendOk(inv) ==
    /\ up
    /\ sending[inv].pc = "sending"
    /\ sending' = [sending EXCEPT ![inv] = Idle]
    /\ delivered' = delivered \cup Numbers(sending[inv].events)
    /\ UNCHANGED << now, env, up, life, ready, history, pending, heap,
                    backfilled, scans, loop, peekRef, readyCalls, testRuns,
                    appended, lastDrainAt, handled, scanned, nScans,
                    digestLog, seen, raised, fired >>

\* channel.send raises.  Nothing catches it: it leaves _send_rebase_digest and
\* its caller.  tasks.loop retries an iteration that raised a connection error
\* (OSError) and stops for good on any other (discord.HTTPException).
SendFails(inv, exc) ==
    /\ up
    /\ sending[inv].pc = "sending"
    /\ sending' = [sending EXCEPT ![inv] = Idle]
    /\ raised' = raised \cup {"_send_rebase_digest"}
    /\ loop' = IF inv = "tick" /\ exc = "HTTPException" THEN "failed" ELSE loop
    /\ UNCHANGED << now, env, up, life, ready, history, pending, heap,
                    backfilled, scans, peekRef, readyCalls, testRuns,
                    appended, lastDrainAt, handled, scanned, nScans,
                    digestLog, delivered, seen, fired >>

(***************************************************************************)
(* Reminders.rebase_reminder (reminders.py:67-78): one iteration of the    *)
(* loop, which starts once the bot is ready and runs one iteration at a    *)
(* time.                                                                   *)
(***************************************************************************)
\* the loop comparing the hour only
RECURSIVE FirstMatchOfHour(_, _)
FirstMatchOfHour(t, i) ==
    IF i > Len(REMINDER_TIMES) THEN 0
    ELSE IF Hour(t) = REMINDER_TIMES[i].hour THEN i
         ELSE FirstMatchOfHour(t, i + 1)

\* for rt in REMINDER_TIMES: if now.hour == rt.hour and now.minute == rt.minute
RECURSIVE FirstMatch(_, _)
FirstMatch(t, i) ==
    IF i > Len(REMINDER_TIMES) THEN 0
    ELSE IF Hour(t) = REMINDER_TIMES[i].hour /\ Minute(t) = REMINDER_TIMES[i].minute
         THEN i
         ELSE FirstMatch(t, i + 1)

TickBody ==
    /\ up
    /\ ready
    /\ loop = "running"
    /\ sending["tick"].pc = "idle"
    /\ IF FirstMatch(now, 1) # 0
       THEN /\ _send_rebase_digest("tick")
            /\ fired' = fired \cup {[at |-> now, what |-> "digest"]}
       ELSE UNCHANGED << heap, sending, digestLog, lastDrainAt, fired >>
    /\ UNCHANGED << env, up, life, ready, history, pending, backfilled,
                    scans, loop, peekRef, readyCalls, testRuns, appended,
                    handled, scanned, nScans, delivered, seen, raised >>

rebase_reminder ==
    /\ TickBody
    /\ UNCHANGED now

\* Reminders.cog_unload (reminders.py:52-53): the loop's task is cancelled.  A
\* digest suspended in channel.send is cancelled there: the request may or may
\* not have gone out.
cog_unload ==
    /\ up
    /\ loop = "running"
    /\ loop' = "cancelled"
    /\ \E sent \in (IF sending["tick"].pc = "sending" THEN BOOLEAN ELSE {FALSE}) :
          delivered' = IF sent THEN delivered \cup Numbers(sending["tick"].events)
                       ELSE delivered
    /\ sending' = [sending EXCEPT !["tick"] = Idle]
    /\ UNCHANGED << now, env, up, life, ready, history, pending, heap,
                    backfilled, scans, peekRef, readyCalls, testRuns,
                    appended, lastDrainAt, handled, scanned, nScans,
                    digestLog, seen, raised, fired >>

(***************************************************************************)
(* Commands.                                                               *)
(***************************************************************************)
\* Reminders.rebase_now (reminders.py:325-334)
rebase_now ==
    /\ up
    /\ sending["cmd"].pc = "idle"
    /\ _send_rebase_digest("cmd")
    /\ UNCHANGED << now, env, up, life, ready, history, pending, backfilled,
                    scans, loop, peekRef, readyCalls, testRuns, appended,
                    handled, scanned, nScans, delivered, seen, raised, fired
                    >>

\* Reminders.activity_preview (reminders.py:336-364), up to context.send
activity_preview ==
    /\ up
    /\ peekRef = "none"
    /\ LET p == peek_buffer(heap)
       IN  /\ heap' = p.heap
           /\ peekRef' = p.ref
    /\ UNCHANGED << now, env, up, life, ready, history, pending, backfilled,
                    scans, loop, sending, readyCalls, testRuns, appended,
                    lastDrainAt, handled, scanned, nScans, digestLog,
                    delivered, seen, raised, fired >>

\* the command returns and its list is dropped
PreviewDone ==
    /\ up
    /\ peekRef # "none"
    /\ peekRef' = "none"
    /\ heap' = [heap EXCEPT !.peeked = << >>]
    /\ UNCHANGED << now, env, up, life, ready, history, pending, backfilled,
                    scans, loop, sending, readyCalls, testRuns, appended,
                    lastDrainAt, handled, scanned, nScans, digestLog,
                    delivered, seen, raised, fired >>

\* Chat._get_github_feed_context (chat.py:93-128): reads a peeked list and
\* returns text; the list is dropped at the return
_get_github_feed_context ==
    /\ up
    /\ heap' = [peek_buffer(heap).heap EXCEPT !.peeked = heap.peeked]
    /\ UNCHANGED << now, env, up, life, ready, history, pending, backfilled,
                    scans, loop, sending, peekRef, readyCalls, testRuns,
                    appended, lastDrainAt, handled, scanned, nScans,
                    digestLog, delivered, seen, raised, fired >>

Extra == [type |-> "extra", timestamp |-> 0, src |-> 0, idx |-> 0,
          via |-> "caller", n |-> 0]

\* a caller of peek_buffer adds to the list it was given, or removes from it
PeekCallerMutates(op) ==
    /\ up
    /\ peekRef # "none"
    /\ \/ /\ op = "add"
          /\ \A i \in DOMAIN heap[peekRef] : heap[peekRef][i] # Extra
          /\ heap' = [heap EXCEPT ![peekRef] = Append(@, Extra)]
       \/ /\ op = "remove"
          /\ heap[peekRef] # << >>
          /\ heap' = [heap EXCEPT ![peekRef] = Tail(@)]
    /\ UNCHANGED << now, env, up, life, ready, history, pending, backfilled,
                    scans, loop, sending, peekRef, readyCalls, testRuns,
                    appended, lastDrainAt, handled, scanned, nScans,
                    digestLog, delivered, seen, raised, fired >>

\* TestDigest.test_digest (test_digest.py:415-444), with both cogs loaded:
\* event_buffer.extend(MOCK_EVENTS), then _send_rebase_digest(now,
\* suppress_ping=True), a keyword _send_rebase_digest does not take: the call
\* raises TypeError before the routine runs.
RECURSIVE MockEvents(_)
MockEvents(i) ==
    IF i > Len(MOCK_EVENTS) THEN << >>
    ELSE << Event(MOCK_EVENTS[i], 0, i, "mock") >> \o MockEvents(i + 1)

test_digest ==
    /\ up
    /\ testRuns < MaxTestDigest
    /\ testRuns' = testRuns + 1
    /\ heap' = AppendAll(heap, MockEvents(1), Len(appended))
    /\ appended' = Logged(appended, MockEvents(1))
    /\ raised' = raised \cup {"test_digest"}
    /\ UNCHANGED << now, env, up, life, ready, history, pending, backfilled,
                    scans, loop, sending, peekRef, readyCalls, lastDrainAt,
                    handled, scanned, nScans, digestLog, delivered, seen,
                    fired >>

(***************************************************************************)
(* The process.                                                            *)
(***************************************************************************)
\* the process ends: what it held in memory is gone
Crash ==
    /\ up
    /\ life <= MaxRestarts
    /\ up' = FALSE
    /\ ready' = FALSE
    /\ pending' = << >>
    /\ heap' = EmptyHeap
    /\ backfilled' = FALSE
    /\ scans' = << >>
    /\ loop' = "stopped"
    /\ sending' = [i \in Invokers |-> Idle]
    /\ peekRef' = "none"
    /\ readyCalls' = 0
    /\ testRuns' = 0
    /\ appended' = << >>
    /\ lastDrainAt' = 0
    /\ handled' = {}
    /\ scanned' = {}
    /\ nScans' = 0
    /\ digestLog' = << >>
    /\ delivered' = {}
    /\ raised' = {}
    /\ UNCHANGED << now, env, life, history, seen, fired >>

\* the process starts: GitHubFeed.__init__ and Reminders.cog_load
Start ==
    /\ ~up
    /\ up' = TRUE
    /\ life' = life + 1
    /\ loop' = "running"
    /\ UNCHANGED << now, env, ready, history, pending, heap, backfilled,
                    scans, sending, peekRef, readyCalls, testRuns, appended,
                    lastDrainAt, handled, scanned, nScans, digestLog,
                    delivered, seen, raised, fired >>

Next ==
    \/ PostMessage(PushMessage)
    \/ AdvanceTime
    \/ on_github_embed
    \/ on_ready_backfill
    \/ \E k \in 1 .. MaxReady : BackfillScan(k)
    \/ \E k \in 1 .. MaxReady : BackfillFetchFails(k)
    \/ rebase_reminder
    \/ \E inv \in Invokers : SendOk(inv)
    \/ \E inv \in Invokers, exc \in {"HTTPException", "OSError"} : SendFails(inv, exc)
    \/ cog_unload
    \/ rebase_now
    \/ Crash
    \/ Start

Spec == Init /\ [][Next]_vars

(***************************************************************************)
(* The buffer and everything that reads or writes it, in the minute of a   *)
(* slot: ingestion, digests, previews, chat context and /test-digest.      *)
(***************************************************************************)
BufferInit ==
    /\ now = 12 * 60
    /\ env = Configured
    /\ up = TRUE
    /\ life = 1
    /\ ready = FALSE
    /\ history = << >>
    /\ pending = << >>
    /\ heap = EmptyHeap
    /\ backfilled = FALSE
    /\ scans = << >>
    /\ loop = "running"
    /\ sending = [i \in Invokers |-> Idle]
    /\ peekRef = "none"
    /\ readyCalls = 0
    /\ testRuns = 0
    /\ appended = << >>
    /\ lastDrainAt = 0
    /\ handled = {}
    /\ scanned = {}
    /\ nScans = 0
    /\ digestLog = << >>
    /\ delivered = {}
    /\ seen = {}
    /\ raised = {}
    /\ fired = {}

BufferNext ==
    \/ \E shape \in FeedShapes : PostMessage(shape)
    \/ on_github_embed
    \/ on_ready_backfill
    \/ \E k \in 1 .. MaxReady : BackfillScan(k)
    \/ rebase_reminder
    \/ rebase_now
    \/ \E inv \in Invokers : SendOk(inv)
    \/ activity_preview
    \/ PreviewDone
    \/ _get_github_feed_context
    \/ \E op \in {"add", "remove"} : PeekCallerMutates(op)
    \/ test_digest

BufferSpec == BufferInit /\ [][BufferNext]_vars

(***************************************************************************)
(* The scheduler alone over 24 hours, one iteration of the loop in every   *)
(* minute: the bot is ready, nothing is posted, every send succeeds.       *)
(***************************************************************************)
TickInit ==
    /\ now = 0
    /\ env = Configured
    /\ up = TRUE
    /\ life = 1
    /\ ready = TRUE
    /\ history = << >>
    /\ pending = << >>
    /\ heap = EmptyHeap
    /\ backfilled = TRUE
    /\ scans = << >>
    /\ loop = "running"
    /\ sending = [i \in Invokers |-> Idle]
    /\ peekRef = "none"
    /\ readyCalls = 1
    /\ testRuns = 0
    /\ appended = << >>
    /\ lastDrainAt = 0
    /\ handled = {}
    /\ scanned = {}
    /\ nScans = 1
    /\ digestLog = << >>
    /\ delivered = {}
    /\ seen = {}
    /\ raised = {}
    /\ fired = {}

\* the iteration of this minute; the next one reads the next minute
MinuteTick ==
    /\ now < MaxDays * DayLen
    /\ TickBody
    /\ now' = now + 1

TickNext ==
    \/ MinuteTick
    \/ SendOk("tick")

TickSpec == TickInit /\ [][TickNext]_vars

(***************************************************************************)
(* The parser over the sample embeds: the integration posts a message with *)
(* one of them, the live listener and the backfill parse it.               *)
(***************************************************************************)
\* the integration posts a message; the gateway dispatches on_message
PostSample(shape) ==
    /\ Len(history) < MaxSamples
    /\ history' = Append(history,
                         [channel |-> shape.channel, bot |-> shape.bot,
                          embeds |-> shape.embeds, created_at |-> now])
    /\ pending' = IF up THEN Append(pending, Len(history) + 1) ELSE pending
    /\ UNCHANGED << now, env, up, life, ready, heap, backfilled, scans,
                    loop, sending, peekRef, readyCalls, testRuns, appended,
                    lastDrainAt, handled, scanned, nScans, digestLog,
                    delivered, seen, raised, fired >>

ParseNext ==
    \/ \E shape \in SampleShapes : PostSample(shape)
    \/ on_github_embed
    \/ on_ready_backfill
    \/ \E k \in 1 .. MaxReady : BackfillScan(k)

ParseSpec == Init /\ [][ParseNext]_vars

(***************************************************************************)
(* The digest of what the integration posted, in the minute of a slot: the *)
(* events go through the listener or the backfill into the buffer, and a   *)
(* tick or /rebase-now drains them and renders the digest.                 *)
(***************************************************************************)
RenderNext ==
    \/ \E shape \in RenderShapes : PostSample(shape)
    \/ on_github_embed
    \/ on_ready_backfill
    \/ \E k \in 1 .. MaxReady : BackfillScan(k)
    \/ rebase_reminder
    \/ rebase_now
    \/ \E inv \in Invokers : SendOk(inv)

RenderSpec == BufferInit /\ [][RenderNext]_vars

(***************************************************************************)
(* The backfill at every minute of the day: the bot becomes ready and      *)
(* scans a channel nothing was posted in.                                  *)
(***************************************************************************)
ClockInit ==
    /\ now \in 0 .. (MaxDays * DayLen - 1)
    /\ env = Configured
    /\ up = TRUE
    /\ life = 1
    /\ ready = FALSE
    /\ history = << >>
    /\ pending = << >>
    /\ heap = EmptyHeap
    /\ backfilled = FALSE
    /\ scans = << >>
    /\ loop = "running"
    /\ sending = [i \in Invokers |-> Idle]
    /\ peekRef = "none"
    /\ readyCalls = 0
    /\ testRuns = 0
    /\ appended = << >>
    /\ lastDrainAt = 0
    /\ handled = {}
    /\ scanned = {}
    /\ nScans = 0
    /\ digestLog = << >>
    /\ delivered = {}
    /\ seen = {}
    /\ raised = {}
    /\ fired = {}

ClockNext ==
    \/ on_ready_backfill
    \/ \E k \in 1 .. MaxReady : BackfillScan(k)

ClockSpec == ClockInit /\ [][ClockNext]_vars

(***************************************************************************)
(* The backfill of a process that starts after the integration and people  *)
(* have posted in the feed channel.                                        *)
(***************************************************************************)
\* as many messages of people in the feed channel as one history request
\* returns, one after the other: one entry of the history stands for them,
\* and one run of the listener for the runs that return at once for each
Burst(t) ==
    [channel |-> "feed", bot |-> FALSE, embeds |-> << >>, created_at |-> t,
     count |-> HistoryLimit]

PostBurst ==
    /\ Len(SelectSeq(history, LAMBDA m : ~m.bot)) < MaxBursts
    /\ history' = Append(history, Burst(now))
    /\ pending' = IF up THEN Append(pending, Len(history) + 1) ELSE pending
    /\ UNCHANGED << now, env, up, life, ready, heap, backfilled, scans,
                    loop, sending, peekRef, readyCalls, testRuns, appended,
                    lastDrainAt, handled, scanned, nScans, digestLog,
                    delivered, seen, raised, fired >>

\* the integration posts while the process is down or up
PostLate(shape) ==
    /\ Len(SelectSeq(history, LAMBDA m : m.bot)) < MaxMsgs
    /\ history' = Append(history,
                         [channel |-> shape.channel, bot |-> shape.bot,
                          embeds |-> shape.embeds, created_at |-> now])
    /\ pending' = IF up THEN Append(pending, Len(history) + 1) ELSE pending
    /\ UNCHANGED << now, env, up, life, ready, heap, backfilled, scans,
                    loop, sending, peekRef, readyCalls, testRuns, appended,
                    lastDrainAt, handled, scanned, nScans, digestLog,
                    delivered, seen, raised, fired >>

DownInit ==
    /\ now = StartTime
    /\ env = Configured
    /\ up = FALSE
    /\ life = 0
    /\ ready = FALSE
    /\ history = << >>
    /\ pending = << >>
    /\ heap = EmptyHeap
    /\ backfilled = FALSE
    /\ scans = << >>
    /\ loop = "stopped"
    /\ sending = [i \in Invokers |-> Idle]
    /\ peekRef = "none"
    /\ readyCalls = 0
    /\ testRuns = 0
    /\ appended = << >>
    /\ lastDrainAt = 0
    /\ handled = {}
    /\ scanned = {}
    /\ nScans = 0
    /\ digestLog = << >>
    /\ delivered = {}
    /\ seen = {}
    /\ raised = {}
    /\ fired = {}

BackfillNext ==
    \/ PostBurst
    \/ \E shape \in FeedShapes : PostLate(shape)
    \/ AdvanceTime
    \/ Start
    \/ on_github_embed
    \/ on_ready_backfill
    \/ \E k \in 1 .. MaxReady : BackfillScan(k)

BackfillSpec == DownInit /\ [][BackfillNext]_vars

(***************************************************************************)
(* The scheduler over 24 hours with sends that may fail: one iteration of  *)
(* the loop in every minute while the loop runs; once the loop has ended   *)
(* the minutes pass without one.  asyncio runs a task that can run, and    *)
(* channel.send returns or raises.                                         *)
(***************************************************************************)
\* a minute in which rebase_reminder has no iteration: its loop has ended
MinutePasses ==
    /\ now < MaxDays * DayLen
    /\ loop # "running"
    /\ now' = now + 1
    /\ UNCHANGED << env, up, life, ready, history, pending, heap,
                    backfilled, scans, loop, sending, peekRef, readyCalls,
                    testRuns, appended, lastDrainAt, handled, scanned,
                    nScans, digestLog, delivered, seen, raised, fired >>

\* channel.send of the iteration's digest returns or raises
SendEnds ==
    \/ SendOk("tick")
    \/ \E exc \in {"HTTPException", "OSError"} : SendFails("tick", exc)

DayNext ==
    \/ MinuteTick
    \/ MinutePasses
    \/ SendEnds

DaySpec ==
    /\ TickInit
    /\ [][DayNext]_vars
    /\ WF_vars(MinuteTick)
    /\ WF_vars(MinutePasses)
    /\ WF_vars(SendEnds)

(***************************************************************************)
(* The bot with each of GITHUB_FEED_CHANNEL_ID and REMINDERS_CHANNEL_ID     *)
(* set or not, in the minute of a slot, and messages of every kind: of the  *)
(* integration in the feed channel, of a bot elsewhere, of a person, and    *)
(* without an embed.                                                        *)
(***************************************************************************)
OffChannelMessage == [channel |-> "general", bot |-> TRUE, embeds |-> << PushEmbed >>]

HumanMessage == [channel |-> "feed", bot |-> FALSE, embeds |-> << PushEmbed >>]

BareMessage == [channel |-> "feed", bot |-> TRUE, embeds |-> << >>]

ConfigShapes == {PushMessage, OffChannelMessage, HumanMessage, BareMessage}

ConfigInit ==
    /\ now = 12 * 60
    /\ env \in [feed : BOOLEAN, reminders : BOOLEAN]
    /\ up = TRUE
    /\ life = 1
    /\ ready = FALSE
    /\ history = << >>
    /\ pending = << >>
    /\ heap = EmptyHeap
    /\ backfilled = FALSE
    /\ scans = << >>
    /\ loop = "running"
    /\ sending = [i \in Invokers |-> Idle]
    /\ peekRef = "none"
    /\ readyCalls = 0
    /\ testRuns = 0
    /\ appended = << >>
    /\ lastDrainAt = 0
    /\ handled = {}
    /\ scanned = {}
    /\ nScans = 0
    /\ digestLog = << >>
    /\ delivered = {}
    /\ seen = {}
    /\ raised = {}
    /\ fired = {}

ConfigNext ==
    \/ \E shape \in ConfigShapes : PostMessage(shape)
    \/ on_github_embed
    \/ on_ready_backfill
    \/ \E k \in 1 .. MaxReady : BackfillScan(k)
    \/ rebase_reminder
    \/ rebase_now
    \/ \E inv \in Invokers : SendOk(inv)

ConfigSpec == ConfigInit /\ [][ConfigNext]_vars

(***************************************************************************)
(* The bot posting in the channel it listens to: REMINDERS_CHANNEL_ID is   *)
(* the feed channel, and /activity-preview is used there as a text         *)
(* command.  What the bot sends arrives as a message of a bot with embeds. *)
(***************************************************************************)
\* an embed of the bot as the gateway delivers it: no url, no author
AsPosted(e) == [title |-> e.title, description |-> e.description, url |-> None,
                author |-> NoAuthor]

\* the message of the bot with the embeds it sent
OwnMessage(kind, embeds) ==
    [channel |-> "feed", bot |-> TRUE,
     embeds |-> [i \in DOMAIN embeds |-> AsPosted(embeds[i])],
     created_at |-> now, own |-> kind]

IsOwn(m) == "own" \in DOMAIN m

OwnCount == Len(SelectSeq(history, IsOwn))

\* channel.send(content=ping, embeds=all_embeds) returns: the digest is a
\* message of the feed channel
SendPosts(inv) ==
    /\ up
    /\ sending[inv].pc = "sending"
    /\ OwnCount < MaxOwn
    /\ sending' = [sending EXCEPT ![inv] = Idle]
    /\ delivered' = delivered \cup Numbers(sending[inv].events)
    /\ history' = Append(history, OwnMessage("digest", all_embeds(sending[inv].events, now)))
    /\ pending' = Append(pending, Len(history) + 1)
    /\ UNCHANGED << now, env, up, life, ready, heap, backfilled, scans, loop,
                    peekRef, readyCalls, testRuns, appended, lastDrainAt,
                    handled, scanned, nScans, digestLog, seen, raised, fired >>

\* activity_preview used in the feed channel: it reads a copy of the buffer
\* and context.send(embeds=all_embeds) posts the preview there
PreviewPosts ==
    /\ up
    /\ OwnCount < MaxOwn
    /\ history' = Append(history,
                         OwnMessage("preview", preview_embeds(peek_buffer(heap).heap.peeked)))
    /\ pending' = Append(pending, Len(history) + 1)
    /\ UNCHANGED << now, env, up, life, ready, heap, backfilled, scans, loop,
                    sending, peekRef, readyCalls, testRuns, appended,
                    lastDrainAt, handled, scanned, nScans, digestLog,
                    delivered, seen, raised, fired >>

\* the message of the integration: one with an event of every type
LoopbackShapes == {EveryTypeMessage}

\* the integration posts before the bot does
PostFirst(shape) ==
    /\ OwnCount = 0
    /\ PostSample(shape)

LoopbackNext ==
    \/ \E shape \in LoopbackShapes : PostFirst(shape)
    \/ on_github_embed
    \/ on_ready_backfill
    \/ \E k \in 1 .. MaxReady : BackfillScan(k)
    \/ rebase_now
    \/ SendPosts("cmd")
    \/ PreviewPosts

LoopbackSpec == BufferInit /\ [][LoopbackNext]_vars

(***************************************************************************)
(* Properties.                                                             *)
(***************************************************************************)
\* a digest routine drains: it goes from idle to suspended in channel.send
Drains(inv) == sending[inv].pc = "idle" /\ sending'[inv].pc = "sending"

\* the events appended since the last drain (or since the buffer was made)
Window == SubSeq(appended, lastDrainAt + 1, Len(appended))

InBuffer(e) == \E i \in DOMAIN Buffer : Buffer[i] = e

\* C1: drain_buffer returns exactly the events appended since the previous
\* drain (or since creation), in insertion order, and leaves the buffer
\* empty, whatever appends, peeks and drains came before.
C1_DrainReturnsWindow ==
    [][\A inv \in Invokers :
          Drains(inv) => /\ sending'[inv].events = Window
                         /\ Buffer' = << >>]_vars

\* a drain that returned two events or more, after an earlier drain that
\* returned some, while a peeked list is held
C1_Witness ==
    /\ sending["tick"].pc = "sending"
    /\ Len(sending["tick"].events) >= 2
    /\ lastDrainAt > Len(sending["tick"].events)
    /\ peekRef # "none"
    /\ Buffer = << >>

IsSegment(evs, log) ==
    \E a \in 0 .. Len(log) : SubSeq(log, a + 1, a + Len(evs)) = evs

\* C2: under every interleaving of live ingestion, backfill, ticks and
\* /rebase-now, the digests' event lists, one after the other, are the events
\* appended up to the last drain, each once and in order, and the buffer holds
\* the events appended since: no event is in two digests, none is left out.
C2_DigestsPartitionAppends ==
    /\ lastDrainAt <= Len(appended)
    /\ \A i \in DOMAIN appended : appended[i].n = i
    /\ digestLog = SubSeq(appended, 1, lastDrainAt)
    /\ Buffer = Window
    /\ \A inv \in Invokers :
          sending[inv].pc = "sending" => IsSegment(sending[inv].events, digestLog)

\* a scheduled digest and a manual one in flight together, neither empty, with
\* events of the backfill and of the live listener
C2_Witness ==
    /\ sending["tick"].pc = "sending"
    /\ sending["cmd"].pc = "sending"
    /\ sending["tick"].events # << >>
    /\ sending["cmd"].events # << >>
    /\ \E i \in DOMAIN digestLog : digestLog[i].via = "backfill"
    /\ \E i \in DOMAIN digestLog : digestLog[i].via = "live"

\* the embeds of the integration's messages in the feed channel that the
\* parser recognises
RecognisedPairs ==
    { p \in UNION { {<<id, i>> : i \in DOMAIN history[id].embeds} : id \in DOMAIN history } :
        /\ history[p[1]].channel = "feed"
        /\ history[p[1]].bot
        /\ _parse_github_embed(history[p[1]].embeds[p[2]], 0) # NoRecord }

\* C3: no event is lost across restarts: once the process is up, its backfill
\* is over and the listener has nothing left to handle, every recognisable
\* embed posted so far, also while the process was down, has reached the
\* buffer (no history fetch or send having failed).
C3_NoEventLost ==
    (up /\ backfilled /\ scans = << >> /\ pending = << >> /\ raised = {})
        => RecognisedPairs \subseteq seen

\* C4: the channel history is scanned at most once per process lifetime: a
\* second _backfill starts no scan and appends nothing, so no message is
\* backfilled twice.
C4_ScanOnce ==
    /\ nScans <= 1
    /\ Len(scans) <= 1
    /\ \A i, j \in DOMAIN appended :
          (/\ i # j
           /\ appended[i].via = "backfill"
           /\ appended[j].via = "backfill")
          => << appended[i].src, appended[i].idx >> # << appended[j].src, appended[j].idx >>

\* a second on_ready while the first scan is awaiting the history, in a
\* process that was restarted
C4_Witness ==
    /\ readyCalls >= 2
    /\ Len(scans) = 1
    /\ life = 2

CountFrom(id, i) ==
    Cardinality({k \in DOMAIN appended : appended[k].src = id /\ appended[k].idx = i})

\* C5: backfill and the live listener do not know of each other's messages:
\* a recognised embed of a message that both the listener and the scan of one
\* lifetime processed was appended twice.
C5_NotCoordinated ==
    \A p \in RecognisedPairs :
        (p[1] \in handled /\ p[1] \in scanned) => CountFrom(p[1], p[2]) = 2

\* one message with two events in the buffer
C5_Witness ==
    \E i, j \in DOMAIN Buffer :
        /\ i # j
        /\ Buffer[i].src = Buffer[j].src
        /\ Buffer[i].idx = Buffer[j].idx
        /\ Buffer[i].via = "live"
        /\ Buffer[j].via = "backfill"

Fired(t, what) == [at |-> t, what |-> what] \in fired

\* C6: for the slot at 18:00, over 24 hours of one tick per minute, a warning
\* fires at 17:30 and at 17:50 and at no other minute, and the digest at 18:00.
C6_WarningsAt1730And1750 ==
    /\ now > 17 * 60 + 30 => Fired(17 * 60 + 30, "warning")
    /\ now > 17 * 60 + 50 => Fired(17 * 60 + 50, "warning")
    /\ now > 18 * 60 => Fired(18 * 60, "digest")
    /\ \A f \in fired : f.what = "warning" => f.at \in {17 * 60 + 30, 17 * 60 + 50}

PeekStep ==
    \/ activity_preview
    \/ PreviewDone
    \/ _get_github_feed_context
    \/ \E op \in {"add", "remove"} : PeekCallerMutates(op)

\* C7: peek_buffer never changes the buffer: a preview, a chat context read,
\* and a caller adding to or removing from the list it was given all leave the
\* buffer with the same events in the same order.
C7_PeekLeavesBuffer == [][PeekStep => Buffer' = Buffer]_vars

\* a caller has added to and removed from the list a peek gave it, and the
\* buffer still holds its events
C7_Witness ==
    /\ peekRef # "none"
    /\ Len(Buffer) >= 2
    /\ heap[peekRef] = Tail(Buffer) \o << Extra >>

\* C8: a failed send or history fetch is contained: no exception leaves the
\* digest routine, the tick or the backfill, and the scheduler's loop goes on.
C8_FailuresContained ==
    /\ raised = {}
    /\ loop # "failed"

Delivered(e) == e.n \in delivered

InFlight(e) ==
    \E inv \in Invokers :
        /\ sending[inv].pc = "sending"
        /\ \E i \in DOMAIN sending[inv].events : sending[inv].events[i] = e

\* C9: cancelling the scheduler's timer at any point, also while a digest is
\* suspended in the send, loses no event: every event appended is in the
\* buffer, delivered in a digest, or in a digest still being sent (no send or
\* fetch having failed).
C9_CancelLosesNoEvent ==
    (loop = "cancelled" /\ raised = {})
        => \A k \in DOMAIN appended :
              InBuffer(appended[k]) \/ Delivered(appended[k]) \/ InFlight(appended[k])

\* C10: the buffer changes only by an append of the live listener or of the
\* backfill, or by the drain of the digest routine, which the scheduler's tick
\* and /rebase-now reach: nothing else writes to it.
C10_OnlyAppendAndDrain ==
    [][Buffer' # Buffer =>
          \/ on_github_embed
          \/ \E k \in 1 .. MaxReady : BackfillScan(k)
          \/ rebase_reminder
          \/ rebase_now]_vars

\* the embed an event of the buffer was parsed from
SourceEmbed(e) == history[e.src].embeds[e.idx]

\* C11: an embed titled "[adhub] Pull request opened: #42 add feature" with
\* author alice gives a pull request event with action "opened", number 42 and
\* title "add feature".
C11_OpenedPullRequest ==
    \A i \in DOMAIN Buffer :
        SourceEmbed(Buffer[i]) = Embed("[adhub] Pull request opened: #42 add feature", "", Alice)
            => /\ Buffer[i].type = "pull_request"
               /\ Buffer[i].sender = "alice"
               /\ Buffer[i].action = "opened"
               /\ Buffer[i].pr_number = 42
               /\ Buffer[i].pr_title = "add feature"

\* the commits the lines cs of a description stand for: the sha and the
\* message of each line, and the url of a markdown link or else the embed's
CommitsListed(cs, embed) ==
    [i \in DOMAIN cs |->
        [sha |-> cs[i].sha,
         url |-> IF cs[i].shape = "link" THEN cs[i].url ELSE embed.url,
         message |-> cs[i].message]]

\* the sample descriptions and the well-formed lines in them
Listings ==
    {<< Describe(cs), cs >> : cs \in SampleCommitLists}
        \cup {<< "Merge branch dev\n" \o Describe(TwoLinked) \o "\n\n", TwoLinked >>}

ShasOf(commits) == [i \in DOMAIN commits |-> commits[i].sha]

\* the embed of the scenario gives branch dev, commit count 2 and the commits
\* abc1234 and def5678 in this order
TwoCommitScenario ==
    \A i \in DOMAIN Buffer :
        SourceEmbed(Buffer[i]) = Embed("[adhub:dev] 2 new commits", Describe(TwoLinked), Alice)
            => /\ Buffer[i].type = "push"
               /\ Buffer[i].branch = "dev"
               /\ Buffer[i].commit_count = 2
               /\ ShasOf(Buffer[i].commits) = << "abc1234", "def5678" >>

\* C12 as stated: the scenario, and every well-formed line of a push
\* description, in the markdown-link or the plain shape, gives one commit with
\* the sha and the message of the line, in the order of the lines.
C12_EveryLineOneCommit ==
    /\ TwoCommitScenario
    /\ \A i \in DOMAIN Buffer : \A l \in Listings :
          (Buffer[i].type = "push" /\ SourceEmbed(Buffer[i]).description = l[1])
              => Buffer[i].commits = CommitsListed(l[2], SourceEmbed(Buffer[i]))

\* C12 as amended: the scenario, and each of the first 15 well-formed lines of
\* a push description gives one commit with the sha and the message of the
\* line, in the order of the lines; the lines after the 15th give none.
C12_FirstFifteenLines ==
    /\ TwoCommitScenario
    /\ \A i \in DOMAIN Buffer : \A l \in Listings :
          (Buffer[i].type = "push" /\ SourceEmbed(Buffer[i]).description = l[1])
              => Buffer[i].commits = Prefix(CommitsListed(l[2], SourceEmbed(Buffer[i])), 15)

\* the event of a description of 16 well-formed lines is in the buffer, with
\* 15 commits
C12_Witness ==
    \E i \in DOMAIN Buffer :
        /\ Buffer[i].type = "push"
        /\ SourceEmbed(Buffer[i]).description = Describe(Sixteen)
        /\ Len(Buffer[i].commits) = 15

\* the titles of the samples no grammar matches
NoGrammarTitles == {"random chatter", "", None}

\* the events a step added to the buffer
Added == SubSeq(Buffer', Len(Buffer) + 1, Len(Buffer'))

\* C13: an embed whose title no grammar matches (as "random chatter") is
\* skipped: neither the live listener nor the backfill appends an event for
\* it or changes the events of the buffer, and no exception comes out.
C13_UnmatchedSkipped ==
    [][(on_github_embed \/ \E k \in 1 .. MaxReady : BackfillScan(k))
          => /\ Len(Buffer') >= Len(Buffer)
             /\ SubSeq(Buffer', 1, Len(Buffer)) = Buffer
             /\ \A i \in DOMAIN Added :
                   /\ Added[i].type # "none"
                   /\ history[Added[i].src].embeds[Added[i].idx].title \notin NoGrammarTitles
             /\ raised' = raised]_vars

\* the listener and the scan have both gone over a message titled "random
\* chatter", and the buffer is empty
C13_Witness ==
    /\ \E id \in handled \cap scanned : history[id].embeds[1].title = "random chatter"
    /\ Buffer = << >>

\* C14: every event in the buffer has a repo and a sender that are not empty,
\* also when its embed had no author or an author without a name.
C14_RepoAndSender ==
    \A i \in DOMAIN Buffer :
        /\ Buffer[i].repo \notin {"", None}
        /\ Buffer[i].sender \notin {"", None}

\* the digests being sent
InDigest(inv) == sending[inv].events

IsDevPush(e) == e.type = "push" /\ e.branch = "dev"

IsOtherPush(e) == e.type = "push" /\ e.branch # "dev"

DevPushes(events) == Select(events, IsDevPush)

CommitSum(pushes) == Sum([i \in DOMAIN pushes |-> pushes[i].commit_count])

Pushers(pushes) == {pushes[i].pusher : i \in DOMAIN pushes}

PushesOf(pushes, user) == Select(pushes, LAMBDA e : e.pusher = user)

Some(xs, P(_)) == \E i \in DOMAIN xs : P(xs[i])

SectionOrder == << "commits", "pull_requests", "branches", "issues", "releases", "other" >>

\* there are events of the category of a section
HasEventsFor(events, section) ==
    CASE section = "commits"       -> Some(events, IsDevPush)
      [] section = "pull_requests" -> Some(events, LAMBDA e : e.type = "pull_request")
      [] section = "branches"      -> Some(events, LAMBDA e : e.type \in {"create", "delete"})
      [] section = "issues"        -> Some(events, LAMBDA e : e.type = "issues")
      [] section = "releases"      -> Some(events, LAMBDA e : e.type = "release")
      [] section = "other"         -> Some(events, IsOtherPush)

\* the sections of the digest as sent, in the order of its embeds; the embed
\* of the pushes is its commits section
SectionsSent(events) ==
    LET sent == _build_activity_digest(events)
    IN  [i \in DOMAIN sent |->
            IF sent[i].section = "pushes" THEN "commits" ELSE sent[i].section]

RankOf(section) == CHOOSE r \in DOMAIN SectionOrder : SectionOrder[r] = section

\* C16: the sections of a digest are in the order commits to dev, pull
\* requests, branches, issues, releases, summary of the other branches, and a
\* section is there exactly if there are events of its category.
C16_SectionOrder ==
    \A inv \in Invokers :
        sending[inv].pc = "sending" =>
            LET shown == SectionsSent(InDigest(inv))
            IN  /\ \A i, j \in DOMAIN shown : i < j => RankOf(shown[i]) < RankOf(shown[j])
                /\ \A r \in DOMAIN SectionOrder :
                      Some(shown, LAMBDA s : s = SectionOrder[r])
                          <=> HasEventsFor(InDigest(inv), SectionOrder[r])

\* C17: every text of a rendered digest is within the ceiling of its place,
\* for the digest as sent and for the layouts of test_digest.py: a
\* description has at most 4096 characters, the value of a field at most 1024.
C17_TextWithinCeilings ==
    \A inv \in Invokers :
        sending[inv].pc = "sending" =>
            LET rendered == all_embeds(InDigest(inv), now)
                                \o build_design_1(InDigest(inv), now)
                                \o build_design_2(InDigest(inv), now)
            IN  \A i \in DOMAIN rendered :
                    /\ Len(rendered[i].description) <= 4096
                    /\ \A f \in DOMAIN rendered[i].fields :
                          Len(rendered[i].fields[f].value) <= 1024

\* the instants of the slots: 12:00 and 18:00 of each day
SlotInstants == {d * DayLen + h * 60 : d \in -1 .. MaxDays, h \in {12, 18}}

RecognisedSince(cutoff) == {p \in RecognisedPairs : history[p[1]].created_at >= cutoff}

\* C19: when a scan of the backfill completes, it has appended an event for
\* every embed the parser recognises in every message of the integration in
\* the feed channel since the cutoff, oldest message first, with the time of
\* the message as its timestamp.
C19_BackfillAppendsAllSince ==
    [][\A k \in 1 .. MaxReady :
          BackfillScan(k) =>
              /\ SubSeq(Buffer', 1, Len(Buffer)) = Buffer
              /\ {<< Added[i].src, Added[i].idx >> : i \in DOMAIN Added}
                     = RecognisedSince(scans[k].cutoff)
              /\ \A i, j \in DOMAIN Added :
                    i < j => \/ Added[i].src < Added[j].src
                             \/ Added[i].src = Added[j].src /\ Added[i].idx < Added[j].idx
              /\ \A i \in DOMAIN Added :
                    Added[i].timestamp = history[Added[i].src].created_at]_vars

\* C20: an iteration of rebase_reminder does at most one thing: in the minute
\* of a slot it sends one digest, in any other minute it does nothing.
C20_OneActionPerTick ==
    [][MinuteTick =>
          IF \E i \in DOMAIN REMINDER_TIMES :
                 Hour(now) = REMINDER_TIMES[i].hour /\ Minute(now) = REMINDER_TIMES[i].minute
          THEN /\ fired' = fired \cup {[at |-> now, what |-> "digest"]}
               /\ Cardinality(fired') = Cardinality(fired) + 1
               /\ sending'["tick"].pc = "sending"
               /\ lastDrainAt' = Len(appended)
          ELSE UNCHANGED << fired, heap, sending, digestLog, lastDrainAt >>]_vars

\* the iteration of 12:00 has fired the one digest there is, and the
\* iterations up to 12:30 nothing more
C20_Witness ==
    /\ now = 12 * 60 + 30
    /\ fired = {[at |-> 12 * 60, what |-> "digest"]}

\* C21: the scheduler sends at most one digest for an occurrence of a slot:
\* when an iteration of rebase_reminder sends a digest, none has been sent by
\* an iteration that read the same minute, in this or an earlier lifetime of
\* the process.
C21_OneDigestPerSlot ==
    [][Drains("tick") => [at |-> now, what |-> "digest"] \notin fired]_vars

\* the minutes of the slots the clock runs over
SlotMinutes == {s \in SlotInstants : 0 <= s /\ s < MaxDays * DayLen}

\* C22: with the delivery channel configured, each occurrence of a slot time
\* leads to an invocation of the digest routine by the scheduler for that
\* slot, also when an earlier digest has ended with an exception.
C22_EverySlotLeadsToDigest ==
    \A s \in SlotMinutes :
        (now = s /\ up /\ env.reminders) ~> Fired(s, "digest")

\* the grammars in the order of the claim: push, strict and loose pull
\* request, strict and loose issue, create, delete, release
Grammars ==
    << [type |-> "push", pattern |-> push_pattern, ignorecase |-> FALSE],
       [type |-> "pull_request", pattern |-> pr_pattern, ignorecase |-> TRUE],
       [type |-> "pull_request", pattern |-> pr_pattern2, ignorecase |-> TRUE],
       [type |-> "issues", pattern |-> issue_pattern, ignorecase |-> TRUE],
       [type |-> "issues", pattern |-> issue_pattern2, ignorecase |-> TRUE],
       [type |-> "create", pattern |-> create_pattern, ignorecase |-> TRUE],
       [type |-> "delete", pattern |-> delete_pattern, ignorecase |-> TRUE],
       [type |-> "release", pattern |-> release_pattern, ignorecase |-> FALSE] >>

\* what grammar g makes of a title
GrammarMatch(g, title) == re_match(Grammars[g].pattern, title, Grammars[g].ignorecase)

SampleTitles == {NoneAsEmpty(embed.title) : embed \in SampleEmbeds}

\* for each sample title, what each grammar makes of it
GrammarMatches ==
    [title \in SampleTitles |-> [g \in DOMAIN Grammars |-> GrammarMatch(g, title)]]

\* the grammars that match a title
Matching(title) == {g \in DOMAIN Grammars : GrammarMatches[title][g].ok}

\* the fields a grammar extracts, as the claim's forms name them: the strict
\* form is "#N action: title", the loose form "action [#N] [title]"
ExtractedBy(g, m) ==
    IF g \in {2, 4}
    THEN [repo |-> group(m, 1), number |-> int(group(m, 2)),
          action |-> lower(strip(group(m, 3))), title |-> strip(group(m, 4))]
    ELSE IF g \in {3, 5}
    THEN [repo |-> group(m, 1),
          number |-> IF group(m, 3) = None THEN 0 ELSE int(group(m, 3)),
          action |-> lower(strip(group(m, 2))), title |-> strip(group(m, 4))]
    ELSE [repo |-> group(m, 1)]

\* the same fields of an event
ExtractedOf(e) ==
    IF e.type = "pull_request"
    THEN [repo |-> e.repo, number |-> e.pr_number, action |-> e.action, title |-> e.pr_title]
    ELSE IF e.type = "issues"
    THEN [repo |-> e.repo, number |-> e.issue_number, action |-> e.action,
          title |-> e.issue_title]
    ELSE [repo |-> e.repo]

TitleOf(e) == NoneAsEmpty(SourceEmbed(e).title)

\* C23: every parsed event is the one the first grammar matching its title
\* builds, the grammars taken in the order push, strict pull request, loose
\* pull request, strict issue, loose issue, create, delete, release; so a
\* title both forms of a pull request or an issue match is extracted by the
\* strict form.
C23_FirstGrammarWins ==
    \A i \in DOMAIN Buffer :
        LET hits == Matching(TitleOf(Buffer[i]))
        IN  /\ hits # {}
            /\ Buffer[i].type = Grammars[Min(hits)].type
            /\ ExtractedOf(Buffer[i])
                   = ExtractedBy(Min(hits), GrammarMatches[TitleOf(Buffer[i])][Min(hits)])

\* the buffer holds the event of a pull request title that both forms match,
\* with the number and the action of the strict form
C23_Witness ==
    /\ \E i \in DOMAIN Buffer :
          /\ {2, 3} \subseteq Matching(TitleOf(Buffer[i]))
          /\ Buffer[i].pr_number = 7
          /\ Buffer[i].action = "closed"

\* the commit lines of a sample description that have one of the two shapes,
\* in the order of the lines
RecognisedLines(embed) ==
    IF \E l \in Listings : l[1] = embed.description
    THEN CommitsListed((CHOOSE l \in Listings : l[1] = embed.description)[2], embed)
    ELSE << >>

IsPrefix(a, b) == Len(a) <= Len(b) /\ a = SubSeq(b, 1, Len(a))

\* C24: the commits of every push event are at most 15 and are the first of
\* the description's commit lines that have one of the two accepted shapes,
\* in their order; a line of neither shape gives no commit.
C24_CommitsCappedPrefix ==
    \A i \in DOMAIN Buffer :
        Buffer[i].type = "push"
            => /\ Len(Buffer[i].commits) <= 15
               /\ IsPrefix(Buffer[i].commits, RecognisedLines(SourceEmbed(Buffer[i])))
               /\ Len(RecognisedLines(SourceEmbed(Buffer[i]))) <= 15
                     => Buffer[i].commits = RecognisedLines(SourceEmbed(Buffer[i]))

\* the event of the description of 16 lines ends with the commit of its 15th
\* line
C24_Witness ==
    \E i \in DOMAIN Buffer :
        /\ Buffer[i].type = "push"
        /\ Len(RecognisedLines(SourceEmbed(Buffer[i]))) = 16
        /\ Buffer[i].commits[Len(Buffer[i].commits)].sha = "c0ffeee"

\* the action a digest shows for a pull request
Shown(pr) == IF pr.merged /\ pr.action = "closed" THEN "merged" ELSE pr.action

\* the title has the word "merged" in whatever case
SaysMerged(title) ==
    \E k \in 1 .. (Len(title) - 5) : lower(SubSeq(title, k, k + 5)) = "merged"

\* the entry of a pull request in the layouts of test_digest.py
ShortEntry(pr) ==
    "#" \o ToString(pr.pr_number) \o " " \o pr.pr_title \o " (*" \o Shown(pr) \o "*)\n"

\* the entry of a pull request in the digest as sent
LongEntry(pr) ==
    "[#" \o ToString(pr.pr_number) \o "](" \o pr.pr_url \o ") **" \o pr.pr_title
        \o "** (" \o Shown(pr) \o ") by " \o str(pr.sender) \o "\n"
        \o "  ^" \o pr.head \o "^ -> ^" \o pr.base \o "^ | +" \o ToString(pr.additions)
        \o " -" \o ToString(pr.deletions) \o " (" \o ToString(pr.changed_files)
        \o " files)\n\n"

\* C25: in the digest as sent and in the layouts of test_digest.py, the pull
\* request section has one entry for each pull request event, in their order,
\* which shows "merged" exactly when the event is merged and its action is
\* "closed", and the action as it is otherwise; the event of an embed is
\* merged exactly if the title has "merged" in whatever case.
C25_MergedShown ==
    \A inv \in Invokers :
        sending[inv].pc = "sending" =>
            LET events == InDigest(inv)
                prs    == OfType(events, "pull_request")
                d1     == build_design_1(events, now)[1]
                d2     == build_design_2(events, now)[1]
                sent   == _build_activity_digest(events)
            IN  /\ \A i \in DOMAIN prs : prs[i].merged <=> SaysMerged(TitleOf(prs[i]))
                /\ prs # << >> =>
                      /\ contains(d1.description,
                                  "**Pull Requests** (" \o ToString(Len(prs)) \o ")\n"
                                      \o Concat([i \in DOMAIN prs |-> "> " \o ShortEntry(prs[i])])
                                      \o "\n")
                      /\ \E f \in DOMAIN d2.fields :
                            d2.fields[f].value
                                = Concat([i \in DOMAIN prs |-> ShortEntry(prs[i])])
                      /\ \E e \in DOMAIN sent :
                            /\ sent[e].section = "pull_requests"
                            /\ sent[e].description
                                   = Concat([i \in DOMAIN prs |-> LongEntry(prs[i])])

\* a digest is being sent with a pull request that was closed and merged, one
\* closed and not merged, and one opened whose title says merged
C25_Witness ==
    \E inv \in Invokers :
        /\ sending[inv].pc = "sending"
        /\ \E i, j, k \in DOMAIN InDigest(inv) :
              /\ InDigest(inv)[i].type = "pull_request"
              /\ InDigest(inv)[i].action = "closed" /\ InDigest(inv)[i].merged
              /\ InDigest(inv)[j].type = "pull_request"
              /\ InDigest(inv)[j].action = "closed" /\ ~InDigest(inv)[j].merged
              /\ InDigest(inv)[k].type = "pull_request"
              /\ InDigest(inv)[k].action = "opened" /\ InDigest(inv)[k].merged

SixTypes == {"push", "pull_request", "create", "delete", "issues", "release"}

\* how many events the buckets of _group_events hold: the pushes of the two
\* push buckets and the events of the four lists
InBuckets(events) ==
    LET g == _group_events(events)
    IN  Len(Select(OfType(events, "push"),
                   LAMBDA e : Some(g.dev_pushes, LAMBDA d : d.user = e.pusher) /\ IsDevPush(e)))
            + Len(Select(OfType(events, "push"),
                         LAMBDA e : Some(g.other_pushes, LAMBDA d : d.user = e.pusher)
                                        /\ IsOtherPush(e)))
            + Len(g.prs) + Len(g.branches_created) + Len(g.branches_deleted)
            + Len(g.issues_list)

\* all the text of a list of embeds
TextOf(embeds) ==
    Concat([i \in DOMAIN embeds |->
               embeds[i].description
                   \o Concat([f \in DOMAIN embeds[i].fields |-> embeds[i].fields[f].value])])

\* C26: grouping loses no event: every event of the six types is in exactly
\* one bucket, every push in exactly one of the bucket of dev and the bucket
\* of the other branches, with its commits counted there, and every issue and
\* every release has its line in the rendered digest, in the digest as sent
\* and in the layouts of test_digest.py.
C26_GroupingLosesNoEvent ==
    \A inv \in Invokers :
        sending[inv].pc = "sending" =>
            LET events   == InDigest(inv)
                g        == _group_events(events)
                issues   == OfType(events, "issues")
                releases == OfType(events, "release")
                d1       == build_design_1(events, now)
                d2       == build_design_2(events, now)
                sent     == _build_activity_digest(events)
            IN  /\ InBuckets(events) = Len(Select(events, LAMBDA e : e.type \in SixTypes))
                /\ CommitSum(DevPushes(events))
                       = Sum([u \in DOMAIN g.dev_pushes |-> g.dev_pushes[u].commit_count])
                /\ CommitSum(Select(events, IsOtherPush))
                       = Sum([u \in DOMAIN g.other_pushes |-> g.other_pushes[u].commit_count])
                /\ \A i \in DOMAIN issues :
                      LET number == "#" \o ToString(issues[i].issue_number) \o " "
                                        \o issues[i].issue_title
                      IN  /\ contains(TextOf(d1), "**Issue** " \o number)
                          /\ contains(TextOf(d2), number \o "\n")
                          /\ contains(TextOf(sent),
                                      "[#" \o ToString(issues[i].issue_number) \o "]("
                                          \o issues[i].issue_url \o ") **"
                                          \o issues[i].issue_title \o "**")
                /\ \A i \in DOMAIN releases :
                      /\ contains(TextOf(d1), releases[i].tag)
                      /\ contains(TextOf(d2), releases[i].tag)
                      /\ contains(TextOf(sent),
                                  "[" \o releases[i].tag \o "](" \o releases[i].release_url
                                      \o ") **" \o releases[i].release_name \o "**")

\* the mock events among a list of events
Mock(evs) == Select(evs, LAMBDA e : e.via = "mock")

\* C27: when /test-digest has run, with both cogs loaded, all the mock events
\* have been appended and a digest of them has been handed to the send: none
\* of them is left in the buffer.
C27_TestDigestSendsMockEvents ==
    [][testRuns' = testRuns + 1
          => /\ Len(Mock(appended')) = Len(Mock(appended)) + Len(MOCK_EVENTS)
             /\ Mock(Buffer') = << >>
             /\ \E inv \in Invokers :
                   /\ sending'[inv].pc = "sending"
                   /\ Len(Mock(sending'[inv].events)) = Len(MOCK_EVENTS)]_vars

\* C28: the live listener changes the buffer only for a message in the
\* configured feed channel, by a bot, with at least one embed; for any other
\* message, and for any message when no feed channel is configured, it leaves
\* the buffer as it was.
C28_ListenerFrame ==
    [][on_github_embed
          => (Buffer' # Buffer
                 => /\ env.feed
                    /\ history[Head(pending)].channel = "feed"
                    /\ history[Head(pending)].bot
                    /\ history[Head(pending)].embeds # << >>)]_vars

\* with the feed channel configured, the listener has run for a bot's message
\* with an embed in another channel and for a person's message or a message
\* without an embed, and nothing has been appended
C28_Witness ==
    /\ env.feed
    /\ \E id \in handled : history[id].channel # "feed" /\ history[id].bot
    /\ \E id \in handled : ~history[id].bot \/ history[id].embeds = << >>
    /\ appended = << >>

\* the digest routine is invoked by the scheduler's iteration or /rebase-now
DigestInvoked == rebase_reminder \/ rebase_now

\* C30: when the delivery channel is not configured, or not found, the digest
\* routine returns before the drain: invoked by the scheduler or by
\* /rebase-now, it leaves the buffer as it was and starts no send.
C30_NoChannelNoDrain ==
    [][(DigestInvoked /\ ~env.reminders)
          => /\ heap' = heap
             /\ sending' = sending
             /\ digestLog' = digestLog
             /\ lastDrainAt' = lastDrainAt]_vars

\* without a delivery channel, the iteration of the slot's minute has run
\* and the events appended are all in the buffer
C30_Witness ==
    /\ ~env.reminders
    /\ Fired(now, "digest")
    /\ Buffer # << >>
    /\ Buffer = appended

\* C29: what the bot posts is never ingested: no embed of a digest (header
\* and activity sections) or of a preview it posted in the feed channel gives
\* an event, in the live listener or in the backfill, so the buffer holds
\* only events of the integration's messages.
C29_OwnOutputNotIngested ==
    /\ \A p \in seen : ~IsOwn(history[p[1]])
    /\ \A i \in DOMAIN appended : ~IsOwn(history[appended[i].src])
    /\ \A i \in DOMAIN Buffer : ~IsOwn(history[Buffer[i].src])

\* a digest with activity sections and a preview with activity sections are
\* in the feed channel; the listener has run for both and the backfill has
\* gone over the digest
C29_Witness ==
    \E d, p \in handled :
        /\ IsOwn(history[d]) /\ history[d].own = "digest"
        /\ Len(history[d].embeds) >= 3
        /\ d \in scanned
        /\ IsOwn(history[p]) /\ history[p].own = "preview"
        /\ Len(history[p].embeds) >= 3

====
